---- MODULE Spec2Model ----
(***************************************************************************)
(* Model of the tool-call orchestration loop of the ProActive AI           *)
(* Assistant (agent_logic.handle_user_input) with its tool registry, the   *)
(* argument normalization of the calendar tools and the module-level       *)
(* state (conversation_history and the two result caches).                 *)
(***************************************************************************)
EXTENDS Integers, Sequences, FiniteSets, TLC

\* ------------------------------------------------------------------ values
\* Python values are tagged with their type: str, datetime, int, float, list.
Str(s) == [t |-> "str", v |-> s]
Dt(n) == [t |-> "dt", v |-> n]
IntV(n) == [t |-> "int", v |-> n]
\* a float is kept as the fraction num/den (den > 0)
FloatV(n, d) == [t |-> "float", num |-> n, den |-> d]
ListV(s) == [t |-> "list", v |-> s]
BoolV(b) == [t |-> "bool", v |-> b]
DictV(d) == [t |-> "dict", v |-> d]

IsStr(x) == x.t = "str"
IsDt(x) == x.t = "dt"
IsFloat(x) == x.t = "float"
IsList(x) == x.t = "list"

\* Python truthiness of a value popped from the arguments (line 286)
Truthy(x) ==
    CASE x.t = "str" -> x.v # ""
      [] x.t = "list" -> x.v # <<>>
      [] x.t = "int" -> x.v # 0
      [] x.t = "float" -> x.num # 0
      [] x.t = "bool" -> x.v
      [] OTHER -> TRUE

\* variant: the float is rounded down
IntOfFloat_Floor(x) == x.num \div x.den

\* int(x) of a float: truncation toward zero (line 295)
IntOfFloat(x) ==
    IF x.num >= 0 THEN x.num \div x.den ELSE -((-x.num) \div x.den)

\* key removal and assignment on an argument dict
Pop(args, k) == [j \in DOMAIN args \ {k} |-> args[j]]
Put(args, k, x) == [j \in DOMAIN args \cup {k} |-> IF j = k THEN x ELSE args[j]]


\* F applied to the value of x, which is evaluated once
With(F(_), x) == CHOOSE y \in {F(v) : v \in {x}} : TRUE

\* outcome of a Python call: a returned value or a raised exception (str(e))
Ok(x) == [ok |-> TRUE, value |-> x]
Raise(ty, m) == [ok |-> FALSE, type |-> ty, error |-> m]

\* --------------------------------------------------------------- the clock
\* Instants are minutes since Monday 2024-01-01 00:00 in CALENDAR_TIMEZONE
\* (Asia/Kolkata has no daylight saving, so local arithmetic is exact).
MinutesPerDay == 24 * 60
Weekday(n) == (n \div MinutesPerDay) % 7
DateOf(n) == n \div MinutesPerDay
\* datetime.now(...) as read by the handler: a Monday and a Tuesday morning
NowChoices == {7 * MinutesPerDay + 600, 8 * MinutesPerDay + 600}

\* datetime.isoformat(): the instant rendered as a string
isoformat(n) == "2024-01-01T00:00+05:30 plus " \o ToString(n) \o " min"

\* ------------------------------------------------- convert_datetimes_to_iso
\* variant: the elements of lists are converted, the values of dicts are not
RECURSIVE convert_datetimes_to_iso_ListsOnly(_)
convert_datetimes_to_iso_ListsOnly(obj) ==
    IF obj.t = "dt" THEN Str(isoformat(obj.v))
    ELSE IF obj.t = "list"
         THEN ListV([i \in DOMAIN obj.v |-> convert_datetimes_to_iso_ListsOnly(obj.v[i])])
    ELSE obj

RECURSIVE convert_datetimes_to_iso(_)
convert_datetimes_to_iso(obj) ==
    IF obj.t = "dt" THEN Str(isoformat(obj.v))
    ELSE IF obj.t = "list"
         THEN ListV([i \in DOMAIN obj.v |-> convert_datetimes_to_iso(obj.v[i])])
    ELSE IF obj.t = "dict"
         THEN DictV([k \in DOMAIN obj.v |-> convert_datetimes_to_iso(obj.v[k])])
    ELSE obj

\* --------------------------------------------- resolve_datetime_from_string
\* The date strings the modelled language model emits.
AbsoluteString == "2024-01-09 18:00"
AbsoluteStringEnd == "2024-01-09 21:00"
NextTuesday7pm == "next Tuesday at 7pm"
NextTuesday10pm == "next Tuesday at 10pm"
NextMonday13pm == "next monday at 13pm"
Unparseable == "sometime soon-ish"

\* dateparser.parse(date_time_str, settings): the instant, or -1 for None.
\* The library resolves the absolute strings; the "next <weekday>" phrases
\* are the ones the regex fallback exists for.
dateparser_parse(s, now) ==
    CASE s = AbsoluteString -> 8 * MinutesPerDay + 18 * 60
      [] s = AbsoluteStringEnd -> 8 * MinutesPerDay + 21 * 60
      [] OTHER -> -1

\* line 138: date_time_str.lower().strip() of the modelled strings; the other
\* strings of the model are in lower case already
lower_strip(s) ==
    CASE s = NextTuesday7pm -> "next tuesday at 7pm"
      [] s = NextTuesday10pm -> "next tuesday at 10pm"
      [] OTHER -> s

\* The phrases "next <weekday> at <hour><am|pm|nothing>" in lower case, by
\* their three parts; ampm is "" where the phrase has neither am nor pm.
WeekdayNames ==
    {"monday", "tuesday", "wednesday", "thursday", "friday", "saturday", "sunday"}
PhraseHours == {0, 1, 7, 10, 11, 12, 13, 23, 24}
AmPm == {"", "am", "pm"}
NextPhrase(day, hour, ampm) ==
    "next " \o day \o " at " \o ToString(hour) \o ampm
PhraseTable ==
    [g \in WeekdayNames \X PhraseHours \X AmPm |-> NextPhrase(g[1], g[2], g[3])]

\* line 139: re.search(r'next\s+(monday|...)\s+at\s+(\d{1,2})\s*(pm|am)?', s)
\* as the match groups; matched = FALSE for no match.
NoMatch == [matched |-> FALSE, day |-> "", hour |-> 0, ampm |-> ""]
GroupsOf(g) == [matched |-> TRUE, day |-> g[1], hour |-> g[2], ampm |-> g[3]]
re_search(s) ==
    IF \E g \in DOMAIN PhraseTable : PhraseTable[g] = s
    THEN GroupsOf(CHOOSE g \in DOMAIN PhraseTable : PhraseTable[g] = s)
    ELSE NoMatch

day_map ==
    [monday |-> 0, tuesday |-> 1, wednesday |-> 2, thursday |-> 3,
     friday |-> 4, saturday |-> 5, sunday |-> 6]

\* variant: the target weekday may be the reference date itself
days_ahead_SameDay(target_day_of_week, today_weekday) ==
    (target_day_of_week - today_weekday + 7) % 7

\* lines 150-152
days_ahead(target_day_of_week, today_weekday) ==
    IF (target_day_of_week - today_weekday + 7) % 7 = 0 THEN 7
    ELSE (target_day_of_week - today_weekday + 7) % 7

\* variant: 12 is added for every pm hour, noon included
hour_NoonShifted(hour_str, ampm) ==
    IF ampm = "pm" THEN hour_str + 12
    ELSE IF ampm = "am" /\ hour_str = 12 THEN 0
    ELSE hour_str

\* lines 156-160: int(hour_str) converted from the 12-hour clock
hour(hour_str, ampm) ==
    IF ampm = "pm" /\ hour_str # 12 THEN hour_str + 12
    ELSE IF ampm = "am" /\ hour_str = 12 THEN 0
    ELSE hour_str

\* line 162: datetime(year, month, day, hour, 0, 0) localized, on a date
\* given as a day number; datetime rejects an hour above 23 with a message
\* of its own
HourOutOfRange == "hour must be in 0..23"
datetime_at(target_date, h) ==
    IF h > 23
    THEN Raise("ValueError", HourOutOfRange)
    ELSE Ok(Dt(target_date * MinutesPerDay + h * 60 + 0))

\* lines 141-164: the fallback on a match m
resolve_fallback(m, now) ==
    LET target_day_of_week == day_map[m.day]
        today_weekday == Weekday(now)
        target_date == DateOf(now) + days_ahead(target_day_of_week, today_weekday)
    IN  datetime_at(target_date, hour(m.hour, m.ampm))

\* line 167: the message of the ValueError raised when nothing resolves
CouldNotParsePrefix == "Could not parse datetime: '"
CouldNotParseSuffix == "'. Please provide a clearer date/time (e.g., 'YYYY-MM-DD HH:MM')."
CouldNotParse(date_time_str) ==
    CouldNotParsePrefix \o date_time_str \o CouldNotParseSuffix

resolve_datetime_from_string(x, now) ==
    IF ~IsStr(x)
    THEN Raise("AttributeError", "object has no attribute 'lower'")
    ELSE LET parsed_dt == dateparser_parse(x.v, now)
             match == re_search(lower_strip(x.v))
         IN  IF parsed_dt # -1 THEN Ok(Dt(parsed_dt))
             ELSE IF match.matched THEN resolve_fallback(match, now)
             ELSE Raise("ValueError", CouldNotParse(x.v))


\* ------------------------------------------------------- the tool registry
\* lines 208-213: the functions given to GenerativeModel(tools=[...]); each
\* is declared to the model under the name of the Python function
advertised_tools ==
    {"check_calendar_availability", "send_calendar_invite",
     "search_restaurants", "search"}

\* keys of available_tools
available_tools ==
    {"check_calendar_availability", "send_calendar_invite",
     "search_restaurants", "Google Search"}

\* parameters of the Python function behind each key
RequiredParams(name) ==
    CASE name = "check_calendar_availability" ->
            {"team_members_emails", "search_start_dt", "search_end_dt"}
      [] name = "send_calendar_invite" ->
            {"restaurant_name", "address", "slot_datetime_start",
             "slot_datetime_end", "attendees_emails"}
      [] name = "search_restaurants" -> {"cuisine", "location"}
      [] name = "Google Search" -> {"queries"}

OptionalParams(name) ==
    CASE name = "check_calendar_availability" -> {"slot_duration_minutes"}
      [] name = "send_calendar_invite" -> {"description"}
      [] name = "search_restaurants" -> {"max_results"}
      [] name = "Google Search" -> {}

\* f(**function_args): Python raises TypeError before the body runs when a
\* keyword is not a parameter or a required parameter is missing
BindError(name, args) ==
    IF DOMAIN args \ (RequiredParams(name) \cup OptionalParams(name)) # {}
    THEN name \o "() got an unexpected keyword argument"
    ELSE IF RequiredParams(name) \ DOMAIN args # {}
    THEN name \o "() missing required positional arguments"
    ELSE ""

\* ---------------------------------------------- check_calendar_availability
Max(a, b) == IF a >= b THEN a ELSE b

\* tuple order of (start, end) pairs, as list.sort() compares them
PairLeq(p, q) == p[1] < q[1] \/ (p[1] = q[1] /\ p[2] <= q[2])

RECURSIVE InsertSorted(_, _)
InsertSorted(sorted, p) ==
    IF sorted = <<>> THEN <<p>>
    ELSE IF PairLeq(p, Head(sorted)) THEN <<p>> \o sorted
    ELSE <<Head(sorted)>> \o InsertSorted(Tail(sorted), p)

RECURSIVE SortIntervals(_)
SortIntervals(seq) ==
    IF seq = <<>> THEN <<>>
    ELSE InsertSorted(SortIntervals(Tail(seq)), Head(seq))

\* lines 154-164
RECURSIVE MergeFrom(_, _, _, _, _)
MergeFrom(all, i, current_start, current_end, merged) ==
    IF i > Len(all) THEN Append(merged, <<current_start, current_end>>)
    ELSE LET next_start == all[i][1]
             next_end == all[i][2]
         IN  IF next_start <= current_end
             THEN MergeFrom(all, i + 1, current_start,
                            Max(current_end, next_end), merged)
             ELSE MergeFrom(all, i + 1, next_start, next_end,
                            Append(merged, <<current_start, current_end>>))

merged_busy_intervals(all_busy_intervals) ==
    LET sorted == SortIntervals(all_busy_intervals)
    IN  IF sorted = <<>> THEN <<>>
        ELSE MergeFrom(sorted, 2, sorted[1][1], sorted[1][2], <<>>)

\* line 172
is_free(slot_start, slot_end, merged) ==
    \A i \in DOMAIN merged :
        slot_end <= merged[i][1] \/ slot_start >= merged[i][2]

\* variant: the search stops at the first busy candidate
common_free_slots_StopAtBusy(search_start, search_end, duration, merged) ==
    LET span == search_end - search_start - duration
        count == IF span < 0 THEN 0 ELSE (span \div 30) + 1
        candidates == [k \in 1..count |->
                         <<search_start + 30 * (k - 1),
                           search_start + 30 * (k - 1) + duration>>]
        busy == { k \in 1..count :
                    ~is_free(candidates[k][1], candidates[k][2], merged) }
    IN  IF busy = {} THEN candidates
        ELSE SubSeq(candidates, 1,
                    (CHOOSE k \in busy : \A j \in busy : k <= j) - 1)

\* lines 166-179: the candidates on the 30-minute grid, in increasing order
common_free_slots(search_start, search_end, duration, merged) ==
    LET span == search_end - search_start - duration
        count == IF span < 0 THEN 0 ELSE (span \div 30) + 1
        candidates == [k \in 1..count |->
                         <<search_start + 30 * (k - 1),
                           search_start + 30 * (k - 1) + duration>>]
    IN  SelectSeq(candidates, LAMBDA c : is_free(c[1], c[2], merged))

\* lines 182-188
FormatSlot(c) ==
    DictV([display |-> Str("slot " \o ToString(c[1]) \o " - " \o ToString(c[2])),
           start_datetime |-> Dt(c[1]),
           end_datetime |-> Dt(c[2])])

formatted_and_raw_slots(free) ==
    LET top == SubSeq(free, 1, IF Len(free) < 3 THEN Len(free) ELSE 3)
    IN  ListV([i \in DOMAIN top |-> FormatSlot(top[i])])

\* cal is the outcome of the freebusy query: fail (HttpError or any other
\* exception) or the busy intervals of all calendars.
check_calendar_availability(args, calendar_service, cal) ==
    LET duration == IF "slot_duration_minutes" \in DOMAIN args
                    THEN args["slot_duration_minutes"] ELSE IntV(120)
    IN  IF BindError("check_calendar_availability", args) # ""
        THEN Raise("TypeError", BindError("check_calendar_availability", args))
        ELSE IF ~calendar_service THEN Ok(ListV(<<>>))
        ELSE IF ~(IsList(args["team_members_emails"]) \/ IsStr(args["team_members_emails"]))
        THEN Raise("TypeError", "object is not iterable")
        ELSE IF ~IsDt(args["search_start_dt"]) \/ ~IsDt(args["search_end_dt"])
        THEN Raise("AttributeError", "object has no attribute 'isoformat'")
        ELSE IF cal.fail \/ duration.t # "int" THEN Ok(ListV(<<>>))
        ELSE Ok(formatted_and_raw_slots(
                  common_free_slots(args["search_start_dt"].v,
                                    args["search_end_dt"].v, duration.v,
                                    merged_busy_intervals(cal.busy))))

\* ----------------------------------------------------- send_calendar_invite
\* inserted is the outcome of events().insert(...).execute()
send_calendar_invite(args, calendar_service, inserted) ==
    IF BindError("send_calendar_invite", args) # ""
    THEN Raise("TypeError", BindError("send_calendar_invite", args))
    ELSE IF ~calendar_service THEN Ok(BoolV(FALSE))
    ELSE IF ~IsDt(args["slot_datetime_start"]) \/ ~IsDt(args["slot_datetime_end"])
    THEN Raise("AttributeError", "object has no attribute 'isoformat'")
    ELSE IF ~(IsList(args["attendees_emails"]) \/ IsStr(args["attendees_emails"]))
    THEN Raise("TypeError", "object is not iterable")
    ELSE Ok(BoolV(inserted))


\* ------------------------------------------------------- search_restaurants
SimulatedRestaurant(n, a, r, c) ==
    DictV([name |-> Str(n), address |-> Str(a), rating |-> Str(r),
           cuisine |-> Str(c),
           booking_url |-> Str("https://example.com/simulated-booking")])

\* variant: nothing is simulated, the fallback is the empty list
dummy_restaurants_Empty == ListV(<<>>)

\* the fixed list returned at lines 14-18, 79-83 and 94-98
dummy_restaurants ==
    ListV(<<SimulatedRestaurant("Paradise Biryani (Simulated)",
                                "Gachibowli, Hyderabad (Simulated Address)",
                                "4.1", "Hyderabadi Biryani"),
            SimulatedRestaurant("Bawarchi (Simulated)",
                                "RTC Cross Roads, Hyderabad (Simulated Address)",
                                "4.3", "Hyderabadi, North Indian"),
            SimulatedRestaurant("Sarvi (Simulated)",
                                "Banjara Hills, Hyderabad (Simulated Address)",
                                "4.0", "Hyderabadi, Multi-Cuisine")>>)

\* lines 44-71: one place record of the Places response as a restaurant.
\* A place carries its name, address, rating and the set of its types; the
\* substring test of line 49 is membership of the cuisine in that set.
RestaurantOf(place, cuisine) ==
    DictV([name |-> Str(place.name), address |-> Str(place.address),
           rating |-> Str(place.rating),
           cuisine |-> IF cuisine.v # "any" /\ cuisine.v \notin place.types
                       THEN cuisine
                       ELSE IF place.types = {} THEN cuisine
                       ELSE Str(place.hint),
           booking_url |-> Str("https://example.com/booking/" \o place.name)])

\* line 41: len(restaurants_found) >= max_results, for an int or a float
ReachedMax(n, max_results) ==
    IF max_results.t = "float" THEN n * max_results.den >= max_results.num
    ELSE n >= max_results.v

\* lines 40-42: the loop stops once len(restaurants_found) >= max_results
RECURSIVE CollectRestaurants(_, _, _, _)
CollectRestaurants(results, cuisine, max_results, found) ==
    IF results = <<>> \/ ReachedMax(Len(found), max_results) THEN found
    ELSE CollectRestaurants(Tail(results), cuisine, max_results,
                            Append(found, RestaurantOf(Head(results), cuisine)))

\* places is the outcome of requests.get: network failure, or a JSON body with
\* a status and results
search_restaurants(args, api_key, places) ==
    LET max_results == IF "max_results" \in DOMAIN args
                       THEN args["max_results"] ELSE IntV(3)
        restaurants_found ==
            IF places.status = "OK"
            THEN CollectRestaurants(places.results, args["cuisine"],
                                    max_results, <<>>)
            ELSE <<>>
    IN  IF BindError("search_restaurants", args) # ""
        THEN Raise("TypeError", BindError("search_restaurants", args))
        ELSE IF ~api_key THEN Ok(dummy_restaurants)
        ELSE IF places.network_failure THEN Ok(dummy_restaurants)
        ELSE IF places.status = "OK" /\ places.results # <<>>
                /\ (max_results.t \notin {"int", "float"} \/ ~IsStr(args["cuisine"]))
        THEN Ok(dummy_restaurants)
        ELSE IF restaurants_found = <<>> THEN Ok(dummy_restaurants)
        ELSE Ok(ListV(restaurants_found))

\* ------------------------------------------------------------ Google Search
\* queries that contain "datetime" or "date" (line 25)
DateQueries == {"current date and time"}

MockResult(query) ==
    DictV([queries |-> ListV(<<DictV([search_term |-> query])>>),
           results |-> ListV(<<DictV(
               [title |-> Str(IF query.v \in DateQueries
                              THEN "Mock Date Result" ELSE "Mock Search Result"),
                snippet |-> Str(IF query.v \in DateQueries
                                THEN "The mock date for '" \o query.v \o
                                     "' is 2025-07-22T20:00:00Z."
                                ELSE "This is a mock search result for the query: '"
                                     \o query.v \o "'.")])>>)])

search(args) ==
    IF BindError("Google Search", args) # ""
    THEN Raise("TypeError", BindError("Google Search", args))
    ELSE IF ~IsList(args["queries"]) THEN Raise("TypeError", "object is not iterable")
    ELSE IF \E i \in DOMAIN args["queries"].v : ~IsStr(args["queries"].v[i])
    THEN Raise("AttributeError", "object has no attribute 'lower'")
    ELSE Ok(ListV([i \in DOMAIN args["queries"].v |->
                     MockResult(args["queries"].v[i])]))

\* available_tools[function_name](**function_args) under the environment env
InvokeTool(name, args, env) ==
    CASE name = "check_calendar_availability" ->
            check_calendar_availability(args, env.calendar_service, env.cal)
      [] name = "send_calendar_invite" ->
            send_calendar_invite(args, env.calendar_service, env.inserted)
      [] name = "search_restaurants" ->
            search_restaurants(args, env.api_key, env.places)
      [] name = "Google Search" -> search(args)


\* ------------------------------------------------- argument normalization
\* lines 271-276, in iteration order
dt_string_keys ==
    << <<"search_start_dt_str", "search_start_dt">>,
       <<"search_end_dt_str", "search_end_dt">>,
       <<"slot_datetime_start_str", "slot_datetime_start">>,
       <<"slot_datetime_end_str", "slot_datetime_end">> >>

\* lines 286-291: the popped string, when truthy, is resolved and stored
StoreResolved(popped, key_dt, resolved) ==
    IF resolved.ok THEN Ok(Put(popped, key_dt, resolved.value)) ELSE resolved

ResolveInto(popped, key_dt, datetime_string, now) ==
    IF Truthy(datetime_string)
    THEN With(LAMBDA resolved : StoreResolved(popped, key_dt, resolved),
              resolve_datetime_from_string(datetime_string, now))
    ELSE Ok(popped)

\* lines 279-291 for one (key_str, key_dt) pair
NormalizeField(function_args, key_str, key_dt, now) ==
    IF key_str \in DOMAIN function_args
    THEN ResolveInto(Pop(function_args, key_str), key_dt,
                     function_args[key_str], now)
    ELSE IF key_dt \in DOMAIN function_args /\ IsStr(function_args[key_dt])
    THEN ResolveInto(Pop(function_args, key_dt), key_dt,
                     function_args[key_dt], now)
    ELSE Ok(function_args)

\* the for loop of line 278 from pair i on; the first exception ends it
RECURSIVE NormalizeFrom(_, _, _)
NormalizeRest(r, i, now) ==
    IF r.ok THEN NormalizeFrom(r.value, i, now) ELSE r

NormalizeFrom(function_args, i, now) ==
    IF i > Len(dt_string_keys) THEN Ok(function_args)
    ELSE With(LAMBDA r : NormalizeRest(r, i + 1, now),
              NormalizeField(function_args, dt_string_keys[i][1],
                             dt_string_keys[i][2], now))

\* lines 293-295
CoerceDuration(function_args) ==
    IF "slot_duration_minutes" \in DOMAIN function_args
       /\ IsFloat(function_args["slot_duration_minutes"])
    THEN Put(function_args, "slot_duration_minutes",
             IntV(IntOfFloat(function_args["slot_duration_minutes"])))
    ELSE function_args

CoerceIfOk(r) == IF r.ok THEN Ok(CoerceDuration(r.value)) ELSE r

\* variant: the pre-processing runs for every tool
NormalizeArgs_EveryTool(function_name, function_args, now) ==
    With(CoerceIfOk, NormalizeFrom(function_args, 1, now))

\* lines 266-295: the pre-processing of the arguments of one call
NormalizeArgs(function_name, function_args, now) ==
    IF function_name \in {"check_calendar_availability", "send_calendar_invite"}
    THEN With(CoerceIfOk, NormalizeFrom(function_args, 1, now))
    ELSE Ok(function_args)

\* ----------------------------------------------------- one requested call
FunctionResponse(name, payload) ==
    [function_response |-> [name |-> name, response |-> payload]]

\* variant: the except clause names ValueError only
Caught_ValueErrorOnly(exc) == exc.type = "ValueError"

\* line 312: the exception types the except clause catches
Caught(exc) == TRUE

\* line 314
ErrorMessage(function_name, exc) ==
    "Error executing tool " \o function_name \o ": " \o exc.error

\* variant: the message leaves the tool name out
NotFoundMessage_NoName(function_name) == "Tool not found."

\* line 319
NotFoundMessage(function_name) == "Tool '" \o function_name \o "' not found."

\* variant: a result is appended only when it is truthy, an empty one is
\* reported as an error
ResultEntries_EmptyIsError(function_name, tool_result) ==
    IF Truthy(tool_result)
    THEN <<FunctionResponse(function_name,
                            [result |-> convert_datetimes_to_iso(tool_result)])>>
    ELSE <<FunctionResponse(function_name,
                            [error |-> "Error executing tool " \o function_name
                                         \o ": no result"])>>

\* lines 307-310: what a successful call appends to tool_responses
ResultEntries(function_name, tool_result) ==
    <<FunctionResponse(function_name,
                       [result |-> convert_datetimes_to_iso(tool_result)])>>

\* variant: the except clause prints the error and appends nothing
ErrorEntries_NotAppended(function_name, exc) == <<>>

\* lines 312-316: what the except clause appends to tool_responses
ErrorEntries(function_name, exc) ==
    <<FunctionResponse(function_name,
                       [error |-> ErrorMessage(function_name, exc)])>>

\* lines 317-321: what the else branch appends to tool_responses
NotFoundEntries(function_name) ==
    <<FunctionResponse(function_name,
                       [error |-> NotFoundMessage(function_name)])>>

NoException == [ok |-> TRUE]

\* The outcome of one requested call: outcome names the branch taken;
\* invoked lists the tool invocation made (at most one); entries is what the
\* branch appends to tool_responses; slots and restaurants are the caches
\* after the call; escaped tells that the exception is not caught by the
\* except clause and leaves the handler.

\* lines 317-321: the name is not a key of available_tools
NotFoundOutcome(function_name, slots_cache, restaurants_cache) ==
    [outcome |-> "not_found", invoked |-> <<>>,
     entries |-> NotFoundEntries(function_name),
     slots |-> slots_cache, restaurants |-> restaurants_cache,
     escaped |-> FALSE, exception |-> NoException]

\* variant: the result of any tool is kept as the available slots
SlotsAfter_AnyTool(function_name, tool_result, slots_cache) == tool_result

\* lines 302-303: available_slots_cache after a successful call
SlotsAfter(function_name, tool_result, slots_cache) ==
    IF function_name = "check_calendar_availability"
    THEN tool_result ELSE slots_cache

\* lines 304-305: found_restaurants_cache after a successful call
RestaurantsAfter(function_name, tool_result, restaurants_cache) ==
    IF function_name = "search_restaurants"
    THEN tool_result ELSE restaurants_cache

\* lines 299-310: the tool returned tool_result
SuccessOutcome(function_name, invocation, tool_result, slots_cache, restaurants_cache) ==
    [outcome |-> "ok", invoked |-> invocation,
     entries |-> ResultEntries(function_name, tool_result),
     slots |-> SlotsAfter(function_name, tool_result, slots_cache),
     restaurants |-> RestaurantsAfter(function_name, tool_result,
                                      restaurants_cache),
     escaped |-> FALSE, exception |-> NoException]

\* lines 312-316: the normalization or the tool raised exc
RaisedOutcome(function_name, invocation, exc, slots_cache, restaurants_cache) ==
    [outcome |-> "raised", invoked |-> invocation,
     entries |-> IF Caught(exc) THEN ErrorEntries(function_name, exc) ELSE <<>>,
     slots |-> slots_cache, restaurants |-> restaurants_cache,
     escaped |-> ~Caught(exc), exception |-> exc]

\* line 298 and what follows it, for the outcome tool_result of the invocation
AfterInvoke(function_name, invocation, tool_result, slots_cache, restaurants_cache) ==
    IF tool_result.ok
    THEN SuccessOutcome(function_name, invocation, tool_result.value,
                        slots_cache, restaurants_cache)
    ELSE RaisedOutcome(function_name, invocation, tool_result, slots_cache,
                       restaurants_cache)

\* lines 264-316 for the outcome normalized of the pre-processing
AfterNormalize(function_name, normalized, env, slots_cache, restaurants_cache) ==
    IF normalized.ok
    THEN With(LAMBDA tool_result :
                  AfterInvoke(function_name,
                              <<[name |-> function_name, args |-> normalized.value]>>,
                              tool_result, slots_cache, restaurants_cache),
              InvokeTool(function_name, normalized.value, env))
    ELSE RaisedOutcome(function_name, <<>>, normalized, slots_cache,
                       restaurants_cache)

\* lines 258-321 for one function_call of the batch
ProcessCall(function_call, now, env, slots_cache, restaurants_cache) ==
    IF function_call.name \notin available_tools
    THEN NotFoundOutcome(function_call.name, slots_cache, restaurants_cache)
    ELSE With(LAMBDA normalized :
                  AfterNormalize(function_call.name, normalized, env,
                                 slots_cache, restaurants_cache),
              NormalizeArgs(function_call.name, function_call.args, now))

\* ------------------------------------------------ the language model's side
\* A Part of a response: function_call is NoCall and text is "" when unset.
NoCall == [unset |-> TRUE]
TextPart(txt) == [function_call |-> NoCall, text |-> txt]
CallPart(name, args) ==
    [function_call |-> [name |-> name, args |-> args], text |-> ""]
\* a part that is neither a function call nor text
OtherPart == [function_call |-> NoCall, text |-> ""]

NoCandidates == [candidates |-> <<>>]
ResponseOf(parts) ==
    [candidates |-> <<[content |-> [role |-> "model", parts |-> parts]]>>]

Emails == ListV(<<Str("a@x.com"), Str("b@x.com")>>)

RestaurantsCall ==
    CallPart("search_restaurants",
             [cuisine |-> Str("italian"), location |-> Str("downtown")])
\* location is missing: the call itself raises TypeError
RestaurantsCallMissingArg ==
    CallPart("search_restaurants", [cuisine |-> Str("italian")])
AvailabilityCall ==
    CallPart("check_calendar_availability",
             [team_members_emails |-> Emails,
              search_start_dt_str |-> Str(NextTuesday7pm),
              search_end_dt_str |-> Str(NextTuesday10pm)])
\* the start cannot be resolved: the normalization raises ValueError
AvailabilityCallUnparseable ==
    CallPart("check_calendar_availability",
             [team_members_emails |-> Emails,
              search_start_dt_str |-> Str(Unparseable),
              search_end_dt_str |-> Str(NextTuesday10pm)])
InviteCall ==
    CallPart("send_calendar_invite",
             [restaurant_name |-> Str("Trattoria"), address |-> Str("1 Main St"),
              slot_datetime_start |-> Str(AbsoluteString),
              slot_datetime_end |-> Str(AbsoluteStringEnd),
              attendees_emails |-> Emails])
\* the model calls the search tool under the name of its Python function
SearchCall ==
    CallPart("search", [queries |-> ListV(<<Str("current date and time")>>)])
GoogleSearchCall ==
    CallPart("Google Search", [queries |-> ListV(<<Str("best pizza")>>)])

\* responses without a function call: they end the turn
FinalResponses ==
    { ResponseOf(<<TextPart("Booked.")>>),
      ResponseOf(<<TextPart("I found"), TextPart("two options.")>>),
      ResponseOf(<<OtherPart>>),
      ResponseOf(<<>>),
      NoCandidates }

\* responses with at least one function call
ToolResponses ==
    { ResponseOf(<<RestaurantsCall>>),
      ResponseOf(<<AvailabilityCallUnparseable, SearchCall, AvailabilityCall>>),
      ResponseOf(<<TextPart("Let me book that."), InviteCall>>),
      ResponseOf(<<RestaurantsCallMissingArg, GoogleSearchCall>>) }

UserInputs == {"Book dinner next Tuesday at 7pm", "hi"}

\* outcomes of the external services behind the tools
CalOutcomes ==
    { [fail |-> TRUE, busy |-> <<>>],
      [fail |-> FALSE,
       busy |-> << <<15 * MinutesPerDay + 19 * 60, 15 * MinutesPerDay + 20 * 60>>,
                   <<8 * MinutesPerDay + 19 * 60 + 30, 8 * MinutesPerDay + 20 * 60>> >>] }

Place(n) == [name |-> n, address |-> "downtown", rating |-> "4.5",
             types |-> {"restaurant", "food"}, hint |-> "restaurant, food"]
PlacesOutcomes ==
    { [network_failure |-> TRUE, status |-> "", results |-> <<>>],
      [network_failure |-> FALSE, status |-> "ZERO_RESULTS", results |-> <<>>],
      [network_failure |-> FALSE, status |-> "OK",
       results |-> <<Place("luigi"), Place("mario")>>] }

\* ------------------------------------------------------- the team members
\* prompts.TEAM_MEMBERS_INITIAL
TEAM_MEMBERS_INITIAL == <<"puravmalikcse@gmail.com", "puravmalikcse2@gmail.com">>

\* email in current_team_members
InList(email, members) == \E i \in DOMAIN members : members[i] = email

\* variant: the new emails take the place of the list
update_team_members_Replacing(members, new_emails) == new_emails

\* lines 79-81: the for loop over new_emails
RECURSIVE update_team_members(_, _)
update_team_members(members, new_emails) ==
    IF new_emails = <<>> THEN members
    ELSE update_team_members(IF InList(Head(new_emails), members)
                             THEN members
                             ELSE Append(members, Head(new_emails)),
                             Tail(new_emails))

\* what the user types at the prompt of main.py or app.py
UserQueries ==
    {"hi",
     "add bob@x.com to the team",
     "invite Bob@x.com and carol@x.com, then bob@x.com and carol@x.com again"}

\* line 68: re.findall of the email pattern, in the order of the text
findall_emails(text) ==
    CASE text = "add bob@x.com to the team" -> <<"bob@x.com">>
      [] text = "invite Bob@x.com and carol@x.com, then bob@x.com and carol@x.com again"
            -> <<"Bob@x.com", "carol@x.com", "bob@x.com", "carol@x.com">>
      [] OTHER -> <<>>

\* list(set(emails)): the lists that hold each element of the set once; the
\* order is the iteration order of a Python set of strings, any order
ListsOfSet(S) ==
    {l \in [1..Cardinality(S) -> S] : {l[i] : i \in DOMAIN l} = S}

\* lines 68-69: the possible return values of extract_emails(text)
extract_emails(text) ==
    ListsOfSet({findall_emails(text)[i] : i \in DOMAIN findall_emails(text)})

\* line 179: strftime("%Y-%m-%d %H:%M:%S %Z%z") of an instant
strftime(n) == "2024-01-01 00:00:00 IST+0530 plus " \o ToString(n) \o " min"

\* line 180: "\n".join([f"- {member}" for member in current_team_members])
RECURSIVE team_members_str(_)
team_members_str(members) ==
    IF members = <<>> THEN ""
    ELSE IF Len(members) = 1 THEN "- " \o members[1]
    ELSE "- " \o members[1] \o "\n" \o team_members_str(Tail(members))

\* lines 178-186: the fields SYSTEM_INSTRUCTION.format(...) fills in
get_updated_system_instruction(now, members) ==
    [current_datetime |-> strftime(now),
     current_timezone |-> "Asia/Kolkata",
     team_members |-> team_members_str(members)]

\* --------------------------------------------------------------- the state
VARIABLES
    conversation_history,       \* agent_logic.conversation_history
    available_slots_cache,      \* agent_logic.available_slots_cache
    found_restaurants_cache,    \* agent_logic.found_restaurants_cache
    calendar_service,           \* google_calendar.calendar_service is set
    GOOGLE_PLACES_API_KEY,      \* restaurant_search.GOOGLE_PLACES_API_KEY is set
    pc,                 \* position of the handle_user_input call, "idle" if none
    response,           \* local variable response
    tool_responses,     \* local variable tool_responses
    attempts,           \* calls of the current batch handled so far
    invoked,            \* tool invocations made by the current call
    sent,               \* arguments of chat.send_message in the current call
    received,           \* responses received by the current call
    len_at_call,        \* len(conversation_history) when the call started
    result,             \* how the last call ended
    printed,            \* the "Assistant: ..." line of the last call
    model_calls,        \* send_message calls made so far
    current_team_members,   \* agent_logic.current_team_members
    system_instruction, \* local variable updated_system_instruction
    arg,                \* argument of the function evaluated on its own
    ret                 \* what that function returned or raised

vars == <<conversation_history, available_slots_cache, found_restaurants_cache,
          calendar_service, GOOGLE_PLACES_API_KEY, pc, response,
          tool_responses, attempts, invoked, sent, received, len_at_call,
          result, printed, model_calls, current_team_members,
          system_instruction, arg, ret>>

\* bound: send_message calls in one behaviour
MaxModelCalls == 3

NoResponse == [none |-> TRUE]
NoneValue == [t |-> "none"]
NotCalled == [kind |-> "not_called"]
Running == [kind |-> "running"]
Returned(x) == [kind |-> "returned", value |-> x]
Raised(exc) == [kind |-> "raised", type |-> exc.type, error |-> exc.error]
NoInstruction == [unset |-> TRUE]
NoValue == [unset |-> TRUE]

\* the module-level state after import, before any call
InitProgram ==
    /\ conversation_history = <<>>
    /\ available_slots_cache = ListV(<<>>)
    /\ found_restaurants_cache = ListV(<<>>)
    /\ calendar_service \in BOOLEAN
    /\ GOOGLE_PLACES_API_KEY \in BOOLEAN
    /\ pc = "idle"
    /\ response = NoResponse
    /\ tool_responses = <<>>
    /\ attempts = <<>>
    /\ invoked = <<>>
    /\ sent = <<>>
    /\ received = <<>>
    /\ len_at_call = 0
    /\ result = NotCalled
    /\ printed = ""
    /\ model_calls = 0
    /\ current_team_members = TEAM_MEMBERS_INITIAL
    /\ system_instruction = NoInstruction

Init ==
    /\ InitProgram
    /\ arg = NoValue
    /\ ret = NoValue


\* ------------------------------------------------------- handle_user_input
\* line 226 / line 250: response.candidates and response.candidates[0].content.parts
HasParts(r) == r.candidates # <<>> /\ r.candidates[1].content.parts # <<>>
PartsOf(r) == r.candidates[1].content.parts

IsCallPart(part) == part.function_call # NoCall
IsTextPart(part) == part.text # ""

\* lines 251-252
tool_call_parts(r) ==
    LET calls == SelectSeq(PartsOf(r), IsCallPart)
    IN  [i \in DOMAIN calls |-> calls[i].function_call]
text_response_parts(r) ==
    LET texts == SelectSeq(PartsOf(r), IsTextPart)
    IN  [i \in DOMAIN texts |-> texts[i].text]

\* " ".join(parts)
RECURSIVE JoinWithSpaces(_)
JoinWithSpaces(parts) ==
    IF parts = <<>> THEN ""
    ELSE IF Len(parts) = 1 THEN parts[1]
    ELSE parts[1] \o " " \o JoinWithSpaces(Tail(parts))

\* variant: the text branch is tested before the tool-call branch
Branch_TextFirst(r) ==
    IF HasParts(r)
    THEN IF text_response_parts(r) # <<>> THEN "text"
         ELSE IF tool_call_parts(r) # <<>> THEN "tools"
         ELSE "unexpected"
    ELSE "none"

\* the branch the while loop takes on a response (lines 250, 254, 330, 337, 342)
Branch(r) ==
    IF HasParts(r)
    THEN IF tool_call_parts(r) # <<>> THEN "tools"
         ELSE IF text_response_parts(r) # <<>> THEN "text"
         ELSE "unexpected"
    ELSE "none"

\* conversation_history.append(turn)
AppendTurn(history, turn) == Append(history, turn)

\* lines 226-227: the first response is recorded when it has parts
RecordFirstResponse(history, r) ==
    IF HasParts(r) THEN AppendTurn(history, r.candidates[1].content) ELSE history

\* line 328: the response to a tool batch replaces the local variable only
RecordNextResponse(history, r) == history

\* variant: the turn is appended without the text
UserTurn_NoText(user_input) == [role |-> "user", parts |-> <<>>]

\* line 218
UserTurn(user_input) == [role |-> "user", parts |-> <<Str(user_input)>>]
TextTurn(full_text) == [role |-> "model", parts |-> <<Str(full_text)>>]
ToolTurn(responses) == [role |-> "tool", parts |-> responses]

\* the responses the modelled service may give to the next send_message:
\* the last send_message of a behaviour is answered without a function call
ResponsesNow == IF model_calls < MaxModelCalls
                THEN FinalResponses \cup ToolResponses
                ELSE FinalResponses

\* lines 200-222 up to the point where send_message(user_input) is in flight,
\* with members the value of current_team_members read at line 180
StartTurn(user_input, members) ==
    /\ pc = "idle"
    /\ model_calls < MaxModelCalls
    /\ \E now \in NowChoices :
          system_instruction' = get_updated_system_instruction(now, members)
    /\ conversation_history' = AppendTurn(conversation_history, UserTurn(user_input))
    /\ len_at_call' = Len(conversation_history)
    /\ sent' = << <<Str(user_input)>> >>
    /\ model_calls' = model_calls + 1
    /\ response' = NoResponse
    /\ tool_responses' = <<>>
    /\ attempts' = <<>>
    /\ invoked' = <<>>
    /\ received' = <<>>
    /\ result' = Running
    /\ printed' = ""
    /\ pc' = "awaiting_first"
    /\ UNCHANGED <<available_slots_cache, found_restaurants_cache,
                   calendar_service, GOOGLE_PLACES_API_KEY, arg, ret>>

\* line 221: model.start_chat(history=conversation_history) is given the list
\* itself; while send_message(user_input) of line 222 is in flight (pc is
\* "awaiting_first") nothing has been appended to it since
start_chat_history == conversation_history

\* a call of handle_user_input(user_input)
HandleUserInput(user_input) ==
    /\ StartTurn(user_input, current_team_members)
    /\ UNCHANGED current_team_members

\* a call of update_team_members(new_emails) between two turns
UpdateTeamMembers(new_emails) ==
    /\ pc = "idle"
    /\ current_team_members' = update_team_members(current_team_members, new_emails)
    /\ UNCHANGED <<conversation_history, available_slots_cache,
                   found_restaurants_cache, calendar_service,
                   GOOGLE_PLACES_API_KEY, pc, response, tool_responses,
                   attempts, invoked, sent, received, len_at_call, result,
                   printed, model_calls, system_instruction, arg, ret>>

\* variant: the driver calls the handler first and adds the emails afterwards
TeamSeenByHandler_BeforeUpdate(before, after) == before

\* main.py lines 45-52, app.py lines 72-77: update_team_members has returned
\* when handle_user_input is called
TeamSeenByHandler(before, after) == after

\* one pass of the loop of main.py (lines 38-52) or one prompt of app.py
\* (lines 61-77) up to the point where send_message is in flight
DriverTurn(user_query) ==
    \E found_emails \in extract_emails(user_query) :
        /\ current_team_members' =
               IF found_emails # <<>>
               THEN update_team_members(current_team_members, found_emails)
               ELSE current_team_members
        /\ StartTurn(user_query,
                     TeamSeenByHandler(current_team_members, current_team_members'))

\* lines 222-227: send_message(user_input) returns r
ReceiveFirstResponse(r) ==
    /\ pc = "awaiting_first"
    /\ response' = r
    /\ received' = Append(received, r)
    /\ conversation_history' = RecordFirstResponse(conversation_history, r)
    /\ tool_responses' = <<>>
    /\ attempts' = <<>>
    /\ pc' = "loop"
    /\ UNCHANGED <<available_slots_cache, found_restaurants_cache,
                   calendar_service, GOOGLE_PLACES_API_KEY, current_team_members,
                   system_instruction, arg, ret, invoked, sent,
                   len_at_call, result, printed, model_calls>>

\* variant: the loop gives up after one tool round-trip
LoopCondition_OneRoundTrip(round_trips) == round_trips < 1

\* line 249: while True, whatever the number of round-trips made so far
LoopCondition(round_trips) == TRUE

\* line 328: send_message(history_entry['parts']) returns r, and control goes
\* back to the loop condition of line 249
ReceiveNextResponse(r) ==
    /\ pc = "awaiting_next"
    /\ response' = r
    /\ received' = Append(received, r)
    /\ conversation_history' = RecordNextResponse(conversation_history, r)
    /\ tool_responses' = <<>>
    /\ attempts' = <<>>
    /\ pc' = IF LoopCondition(Len(sent) - 1) THEN "loop" ELSE "idle"
    /\ result' = IF LoopCondition(Len(sent) - 1) THEN result
                  ELSE Returned(NoneValue)
    /\ UNCHANGED <<available_slots_cache, found_restaurants_cache,
                   calendar_service, GOOGLE_PLACES_API_KEY, current_team_members,
                   system_instruction, arg, ret, invoked, sent,
                   len_at_call, printed, model_calls>>

\* variant: the handler catches the fault and ends the turn quietly
ModelFaultOutcome_Swallowed(exc) == Returned(NoneValue)

\* lines 222 and 328 are in no try block: the exception leaves the handler
ModelFaultOutcome(exc) == Raised(exc)

\* variant: the turns the call has appended are removed when it fails
HistoryAfterFault_RolledBack == SubSeq(conversation_history, 1, len_at_call)

\* lines 218-227 and 324-328: the appends of lines 218, 227 and 325 are made
\* on the module's list and no handler undoes them when send_message raises
HistoryAfterFault == conversation_history

\* lines 222 and 328: send_message raises; nothing in the handler catches it
ModelServiceFault ==
    /\ pc \in {"awaiting_first", "awaiting_next"}
    /\ result' = ModelFaultOutcome([type |-> "ServiceError",
                                    error |-> "model service failed"])
    /\ pc' = "idle"
    /\ conversation_history' = HistoryAfterFault
    /\ UNCHANGED <<available_slots_cache,
                   found_restaurants_cache, calendar_service,
                   GOOGLE_PLACES_API_KEY, current_team_members,
                   system_instruction, arg, ret, response, tool_responses, attempts,
                   invoked, sent, received, len_at_call, printed, model_calls>>

\* the effect of one iteration of the for loop with outcome r
ApplyCallOutcome(function_call, r) ==
    /\ attempts' = Append(attempts, [name |-> function_call.name,
                                     outcome |-> r.outcome,
                                     invoked |-> r.invoked])
    /\ invoked' = invoked \o r.invoked
    /\ tool_responses' = tool_responses \o r.entries
    /\ available_slots_cache' = r.slots
    /\ found_restaurants_cache' = r.restaurants
    /\ pc' = IF r.escaped THEN "idle" ELSE "loop"
    /\ result' = IF r.escaped THEN Raised(r.exception) ELSE result

\* the next function_call of the batch
CurrentCall == tool_call_parts(response)[Len(attempts) + 1]

\* lines 257-321: one iteration of the for loop over tool_call_parts
ExecuteToolCall ==
    /\ pc = "loop"
    /\ Branch(response) = "tools"
    /\ Len(attempts) < Len(tool_call_parts(response))
    /\ \E now \in NowChoices, cal \in CalOutcomes, inserted \in BOOLEAN,
          places \in PlacesOutcomes :
         \E r \in {ProcessCall(CurrentCall, now,
                         [calendar_service |-> calendar_service, cal |-> cal,
                          inserted |-> inserted,
                          api_key |-> GOOGLE_PLACES_API_KEY, places |-> places],
                         available_slots_cache, found_restaurants_cache)} :
             ApplyCallOutcome(CurrentCall, r)
    /\ UNCHANGED <<conversation_history, calendar_service,
                   GOOGLE_PLACES_API_KEY, current_team_members,
                   system_instruction, arg, ret, response, sent, received,
                   len_at_call, printed, model_calls>>

\* lines 323-328 up to the point where send_message(parts) is in flight
SendToolResults ==
    /\ pc = "loop"
    /\ Branch(response) = "tools"
    /\ Len(attempts) = Len(tool_call_parts(response))
    /\ conversation_history' = AppendTurn(conversation_history, ToolTurn(tool_responses))
    /\ sent' = Append(sent, tool_responses)
    /\ model_calls' = model_calls + 1
    /\ pc' = "awaiting_next"
    /\ UNCHANGED <<available_slots_cache, found_restaurants_cache,
                   calendar_service, GOOGLE_PLACES_API_KEY, current_team_members,
                   system_instruction, arg, ret, response,
                   tool_responses, attempts, invoked, received, len_at_call,
                   result, printed>>

\* what handle_user_input returns: the function has no return statement
ReturnValue(full_text) == NoneValue

\* lines 330-335
FinalText ==
    /\ pc = "loop"
    /\ Branch(response) = "text"
    /\ LET full_text_response == JoinWithSpaces(text_response_parts(response))
       IN  /\ printed' = full_text_response
           /\ conversation_history' =
                  AppendTurn(conversation_history, TextTurn(full_text_response))
           /\ result' = Returned(ReturnValue(full_text_response))
    /\ pc' = "idle"
    /\ UNCHANGED <<available_slots_cache, found_restaurants_cache,
                   calendar_service, GOOGLE_PLACES_API_KEY, current_team_members,
                   system_instruction, arg, ret, response,
                   tool_responses, attempts, invoked, sent, received,
                   len_at_call, model_calls>>

\* lines 339 and 344: the two fallback messages
FallbackMessage(branch) ==
    IF branch = "unexpected"
    THEN "I processed the request but have no specific response."
    ELSE "I'm not sure how to respond to that."

\* variant: a turn without an answer takes its user turn back
RecordFallback_DropsUserTurn(history, message) ==
    SubSeq(history, 1, Len(history) - 1)

\* the fallback branches leave conversation_history as it is
RecordFallback(history, message) == history

\* lines 337-340: parts that are neither function calls nor text
FallbackUnexpected ==
    /\ pc = "loop"
    /\ Branch(response) = "unexpected"
    /\ printed' = FallbackMessage("unexpected")
    /\ conversation_history' =
           RecordFallback(conversation_history, FallbackMessage("unexpected"))
    /\ result' = Returned(NoneValue)
    /\ pc' = "idle"
    /\ UNCHANGED <<available_slots_cache, found_restaurants_cache,
                   calendar_service, GOOGLE_PLACES_API_KEY, current_team_members,
                   system_instruction, arg, ret, response,
                   tool_responses, attempts, invoked, sent, received,
                   len_at_call, model_calls>>

\* lines 342-345: no candidates, or a candidate without parts
FallbackNoResponse ==
    /\ pc = "loop"
    /\ Branch(response) = "none"
    /\ printed' = FallbackMessage("none")
    /\ conversation_history' =
           RecordFallback(conversation_history, FallbackMessage("none"))
    /\ result' = Returned(NoneValue)
    /\ pc' = "idle"
    /\ UNCHANGED <<available_slots_cache, found_restaurants_cache,
                   calendar_service, GOOGLE_PLACES_API_KEY, current_team_members,
                   system_instruction, arg, ret, response,
                   tool_responses, attempts, invoked, sent, received,
                   len_at_call, model_calls>>

Next ==
    \/ \E user_input \in UserInputs : HandleUserInput(user_input)
    \/ \E r \in ResponsesNow : ReceiveFirstResponse(r)
    \/ \E r \in ResponsesNow : ReceiveNextResponse(r)
    \/ ModelServiceFault
    \/ ExecuteToolCall
    \/ SendToolResults
    \/ FinalText
    \/ FallbackUnexpected
    \/ FallbackNoResponse

Spec == Init /\ [][Next]_vars

\* --------------------------------------------- the drivers and the team
\* emails given to update_team_members: one or two, repeats included
TeamEmails == {"bob@x.com", "Bob@x.com", "carol@x.com", "puravmalikcse@gmail.com"}
EmailLists == [1..1 -> TeamEmails] \cup [1..2 -> TeamEmails]

\* the answers of the model service in the sessions of the drivers
TeamResponsesNow ==
    ResponsesNow \cap { ResponseOf(<<TextPart("Booked.")>>),
                        ResponseOf(<<OtherPart>>),
                        NoCandidates,
                        ResponseOf(<<RestaurantsCall>>) }

\* A session of main.py or app.py: every turn goes through the driver; between
\* two turns update_team_members may be called with any list of emails.
TeamNext ==
    \/ \E new_emails \in EmailLists : UpdateTeamMembers(new_emails)
    \/ \E user_query \in UserQueries : DriverTurn(user_query)
    \/ \E r \in TeamResponsesNow : ReceiveFirstResponse(r)
    \/ \E r \in TeamResponsesNow : ReceiveNextResponse(r)
    \/ ModelServiceFault
    \/ ExecuteToolCall
    \/ SendToolResults
    \/ FinalText
    \/ FallbackUnexpected
    \/ FallbackNoResponse

\* a session of main.py without calendar credentials and Places API key
TeamInit ==
    /\ Init
    /\ ~calendar_service
    /\ ~GOOGLE_PLACES_API_KEY

TeamSpec == TeamInit /\ [][TeamNext]_vars

\* ------------------------------------------- one calendar call on its own
\* The ways the model can write one datetime field of a calendar call: absent,
\* under the '_str' key (resolvable, empty, unresolvable), under the
\* unsuffixed key (a string, or a value that is not a string), or under both.
NoArgs == [k \in {} |-> NoValue]
FieldForms(key_str, key_dt) ==
    { NoArgs,
      key_str :> Str(NextTuesday7pm),
      key_str :> Str(""),
      key_str :> Str(Unparseable),
      key_dt :> Str(AbsoluteString),
      key_dt :> IntV(7),
      (key_str :> Str(NextTuesday10pm)) @@ (key_dt :> Str(AbsoluteString)),
      (key_str :> Str("")) @@ (key_dt :> Str(AbsoluteStringEnd)) }

\* a field of the other calendar tool, written or not
StrayForms(key_str) == { NoArgs, key_str :> Str(NextTuesday7pm) }

\* 90, 90.5, -3.5, 120.0, or no slot_duration_minutes at all
DurationForms ==
    { NoArgs,
      "slot_duration_minutes" :> IntV(90),
      "slot_duration_minutes" :> FloatV(181, 2),
      "slot_duration_minutes" :> FloatV(-7, 2),
      "slot_duration_minutes" :> FloatV(120, 1) }

AvailabilityCalls ==
    { [name |-> "check_calendar_availability",
       args |-> ("team_members_emails" :> Emails) @@ a @@ b @@ c @@ d] :
        a \in FieldForms("search_start_dt_str", "search_start_dt"),
        b \in FieldForms("search_end_dt_str", "search_end_dt"),
        c \in StrayForms("slot_datetime_start_str"),
        d \in DurationForms }

InviteCalls ==
    { [name |-> "send_calendar_invite",
       args |-> [restaurant_name |-> Str("Trattoria"),
                 address |-> Str("1 Main St"),
                 attendees_emails |-> Emails] @@ a @@ b @@ c @@ d] :
        a \in FieldForms("slot_datetime_start_str", "slot_datetime_start"),
        b \in FieldForms("slot_datetime_end_str", "slot_datetime_end"),
        c \in StrayForms("search_end_dt_str"),
        d \in DurationForms }

\* a function_call of a calendar tool is about to be handled (line 258)
CallInit ==
    /\ InitProgram
    /\ arg \in AvailabilityCalls \cup InviteCalls
    /\ ret = NoValue

\* lines 258-321 for the function_call arg, read at the instant now
HandleOneCall ==
    /\ ret = NoValue
    /\ \E now \in NowChoices, cal \in CalOutcomes, inserted \in BOOLEAN :
         ret' = [now |-> now,
                 call |-> ProcessCall(arg, now,
                             [calendar_service |-> calendar_service,
                              cal |-> cal, inserted |-> inserted,
                              api_key |-> GOOGLE_PLACES_API_KEY,
                              places |-> [network_failure |-> TRUE,
                                          status |-> "", results |-> <<>>]],
                             available_slots_cache, found_restaurants_cache)]
    /\ UNCHANGED <<conversation_history, available_slots_cache,
                   found_restaurants_cache, calendar_service,
                   GOOGLE_PLACES_API_KEY, pc, response, tool_responses,
                   attempts, invoked, sent, received, len_at_call, result,
                   printed, model_calls, current_team_members,
                   system_instruction, arg>>

CallNext == HandleOneCall

CallSpec == CallInit /\ [][CallNext]_vars

\* calls of the two other registered tools whose arguments also hold keys
\* named like the datetime fields and a slot_duration_minutes
OtherToolCalls ==
    { [name |-> n.name, args |-> n.args @@ a @@ b @@ d] :
        n \in { [name |-> "search_restaurants",
                 args |-> [cuisine |-> Str("italian"), location |-> Str("downtown")]],
                [name |-> "Google Search",
                 args |-> [queries |-> ListV(<<Str("best pizza")>>)]] },
        a \in FieldForms("search_start_dt_str", "search_start_dt"),
        b \in StrayForms("slot_datetime_end_str"),
        d \in DurationForms }

\* a function_call of another registered tool is about to be handled
OtherCallInit ==
    /\ InitProgram
    /\ arg \in OtherToolCalls
    /\ ret = NoValue

OtherCallSpec == OtherCallInit /\ [][CallNext]_vars

\* ------------------------------- resolve_datetime_from_string on its own
\* every phrase of the fallback pattern, a mixed-case one, an absolute date
\* and a string nothing resolves
ResolverInputs ==
    {PhraseTable[g] : g \in DOMAIN PhraseTable}
        \cup {NextTuesday7pm, AbsoluteString, Unparseable}

\* current_context_date: two weeks of reference dates, each at midnight, at
\* 10:00 and at 23:59
ReferenceInstants ==
    {d * MinutesPerDay + m : d \in 7..20, m \in {0, 600, MinutesPerDay - 1}}

ResolverInit ==
    /\ InitProgram
    /\ ~calendar_service
    /\ ~GOOGLE_PLACES_API_KEY
    /\ arg \in [date_time_str : ResolverInputs,
                 current_context_date : ReferenceInstants]
    /\ ret = NoValue

\* a call resolve_datetime_from_string(date_time_str, current_context_date,
\* CALENDAR_TIMEZONE)
ResolveOne ==
    /\ ret = NoValue
    /\ ret' = resolve_datetime_from_string(Str(arg.date_time_str),
                                           arg.current_context_date)
    /\ UNCHANGED <<conversation_history, available_slots_cache,
                   found_restaurants_cache, calendar_service,
                   GOOGLE_PLACES_API_KEY, pc, response, tool_responses,
                   attempts, invoked, sent, received, len_at_call, result,
                   printed, model_calls, current_team_members,
                   system_instruction, arg>>

ResolverNext == ResolveOne

ResolverSpec == ResolverInit /\ [][ResolverNext]_vars

\* ------------------- resolve_datetime_from_string called twice in a session
\* a phrase of the fallback, a mixed-case one, an absolute date, a phrase with
\* an hour out of range and a string nothing resolves
RepeatInputs ==
    {"next monday at 12am", NextTuesday7pm, AbsoluteString, NextMonday13pm,
     Unparseable}

RepeatInit ==
    /\ InitProgram
    /\ ~calendar_service
    /\ ~GOOGLE_PLACES_API_KEY
    /\ arg \in [date_time_str : RepeatInputs, current_context_date : NowChoices]
    /\ ret = <<>>

\* variant: the reference date is kept in module state and moves on with the
\* turns of the conversation
ReferenceDate_FromSession(current_context_date) ==
    current_context_date + Len(conversation_history) * MinutesPerDay

\* lines 147 and 154: the reference date is the argument current_context_date
ReferenceDate(current_context_date) == current_context_date

\* one more call resolve_datetime_from_string(date_time_str,
\* current_context_date, CALENDAR_TIMEZONE) with the same arguments, at any
\* point of the session; ret lists the outcomes of the calls
ResolveAgain ==
    /\ Len(ret) < 2
    /\ ret' = Append(ret, resolve_datetime_from_string(Str(arg.date_time_str),
                                     ReferenceDate(arg.current_context_date)))
    /\ UNCHANGED <<conversation_history, available_slots_cache,
                   found_restaurants_cache, calendar_service,
                   GOOGLE_PLACES_API_KEY, pc, response, tool_responses,
                   attempts, invoked, sent, received, len_at_call, result,
                   printed, model_calls, current_team_members,
                   system_instruction, arg>>

\* the answers of the model service in such a session
RepeatResponsesNow ==
    ResponsesNow \cap { ResponseOf(<<TextPart("Booked.")>>),
                        ResponseOf(<<RestaurantsCall>>) }

\* The session goes on between the two calls: turns are handled, tools run and
\* fill the caches, team members are added.
RepeatNext ==
    \/ ResolveAgain
    \/ UpdateTeamMembers(<<"bob@x.com">>)
    \/ HandleUserInput("hi")
    \/ \E r \in RepeatResponsesNow : ReceiveFirstResponse(r)
    \/ \E r \in RepeatResponsesNow : ReceiveNextResponse(r)
    \/ ExecuteToolCall
    \/ SendToolResults
    \/ FinalText

RepeatSpec == RepeatInit /\ [][RepeatNext]_vars

\* ----------------------------------- check_calendar_availability on its own
\* the search window starts on Tuesday 2024-01-09 at 18:00 and is 0 to 3 hours
\* long
WindowStart == 8 * MinutesPerDay + 18 * 60
WindowLengths == {0, 60, 120, 180}

\* busy intervals of the queried calendars as offsets from the window start:
\* before the window, across its start, inside it (overlapping, nested and
\* adjacent ones), across its end
BusyOffsets ==
    { <<-60, -30>>, <<-30, 15>>, <<30, 60>>, <<45, 50>>, <<60, 90>>,
      <<30, 120>>, <<100, 130>>, <<150, 240>> }
BusyIntervals == { <<WindowStart + b[1], WindowStart + b[2]>> : b \in BusyOffsets }
BusyLists ==
    {<<>>} \cup [1..1 -> BusyIntervals] \cup [1..2 -> BusyIntervals]
        \cup [1..3 -> BusyIntervals]

\* slot_duration_minutes as the model may write it: an int of any sign
SlotDurations == {-60, 0, 30, 45, 60, 120}

CalendarInit ==
    /\ InitProgram
    /\ ~GOOGLE_PLACES_API_KEY
    /\ arg \in [search_end_dt : {WindowStart + n : n \in WindowLengths},
                 slot_duration_minutes : SlotDurations,
                 busy : BusyLists]
    /\ ret = NoValue

\* a call check_calendar_availability(team_members_emails, search_start_dt,
\* search_end_dt, slot_duration_minutes) whose freebusy query returns the
\* busy intervals of arg, or fails
CheckAvailability ==
    /\ ret = NoValue
    /\ \E fail \in BOOLEAN :
         ret' = check_calendar_availability(
                    [team_members_emails |-> Emails,
                     search_start_dt |-> Dt(WindowStart),
                     search_end_dt |-> Dt(arg.search_end_dt),
                     slot_duration_minutes |-> IntV(arg.slot_duration_minutes)],
                    calendar_service,
                    [fail |-> fail, busy |-> arg.busy])
    /\ UNCHANGED <<conversation_history, available_slots_cache,
                   found_restaurants_cache, calendar_service,
                   GOOGLE_PLACES_API_KEY, pc, response, tool_responses,
                   attempts, invoked, sent, received, len_at_call, result,
                   printed, model_calls, current_team_members,
                   system_instruction, arg>>

CalendarNext == CheckAvailability

CalendarSpec == CalendarInit /\ [][CalendarNext]_vars

\* ------------------------------------------- search_restaurants on its own
\* what the Places request may give: a network failure, an error status, no
\* result, or 1 to 4 places
PlaceNames == <<"luigi", "mario", "gino", "pepe">>
SearchOutcomes ==
    { [network_failure |-> TRUE, status |-> "", results |-> <<>>],
      [network_failure |-> FALSE, status |-> "REQUEST_DENIED", results |-> <<>>],
      [network_failure |-> FALSE, status |-> "ZERO_RESULTS", results |-> <<>>] }
      \cup { [network_failure |-> FALSE, status |-> "OK",
              results |-> [i \in 1..n |-> Place(PlaceNames[i])]] : n \in 1..4 }

\* max_results as the model may write it, or left to its default
MaxResultsForms ==
    { NoArgs } \cup { "max_results" :> IntV(n) : n \in 0..4 }

RestaurantInit ==
    /\ InitProgram
    /\ ~calendar_service
    /\ arg \in [max_results : MaxResultsForms, cuisine : {"italian", "any"},
                 places : SearchOutcomes]
    /\ ret = NoValue

\* a call search_restaurants(cuisine, location, max_results) whose Places
\* request has the outcome places of arg
SearchRestaurants ==
    /\ ret = NoValue
    /\ ret' = search_restaurants(
                  [cuisine |-> Str(arg.cuisine), location |-> Str("downtown")]
                      @@ arg.max_results,
                  GOOGLE_PLACES_API_KEY, arg.places)
    /\ UNCHANGED <<conversation_history, available_slots_cache,
                   found_restaurants_cache, calendar_service,
                   GOOGLE_PLACES_API_KEY, pc, response, tool_responses,
                   attempts, invoked, sent, received, len_at_call, result,
                   printed, model_calls, current_team_members,
                   system_instruction, arg>>

RestaurantNext == SearchRestaurants

RestaurantSpec == RestaurantInit /\ [][RestaurantNext]_vars

\* --------------------------------------- convert_datetimes_to_iso on its own
\* values a tool may return: datetimes, strings and numbers, lists of up to
\* two of them, dicts of up to two keys, and lists and dicts of those
ListsOver(S) == {<<>>} \cup [1..1 -> S] \cup [1..2 -> S]
DictsOver(S) == UNION {[K -> S] : K \in SUBSET {"start_datetime", "note"}}
Nested(S) ==
    S \cup {ListV(l) : l \in ListsOver(S)} \cup {DictV(d) : d \in DictsOver(S)}
ToolResultAtoms == {Dt(WindowStart), Dt(WindowStart + 30), Str("x"), IntV(1)}
ToolResults == Nested(Nested(ToolResultAtoms))

\* lines 307-308 for a tool result of any shape, before the first turn
ConvertResult ==
    /\ ret = NoValue
    /\ result = NotCalled
    /\ \E tool_result \in ToolResults :
         /\ arg' = tool_result
         /\ ret' = convert_datetimes_to_iso(tool_result)
    /\ UNCHANGED <<conversation_history, available_slots_cache,
                   found_restaurants_cache, calendar_service,
                   GOOGLE_PLACES_API_KEY, pc, response, tool_responses,
                   attempts, invoked, sent, received, len_at_call, result,
                   printed, model_calls, current_team_members,
                   system_instruction>>

\* the conversion applied to a value on its own, and by the handler to the
\* results of the tools it runs
ConvertNext ==
    \/ ConvertResult
    \/ ret = NoValue /\ Next

ConvertSpec == Init /\ [][ConvertNext]_vars

\* The steps of the program when every call of the model service returns.
\* The text of the user's message has no part in the control flow of the loop:
\* one message stands for all.
NextReturning ==
    \/ HandleUserInput("hi")
    \/ \E r \in ResponsesNow : ReceiveFirstResponse(r)
    \/ \E r \in ResponsesNow : ReceiveNextResponse(r)
    \/ ExecuteToolCall
    \/ SendToolResults
    \/ FinalText
    \/ FallbackUnexpected
    \/ FallbackNoResponse

\* handle_user_input is sequential code: once called, each of its steps is
\* taken, and every call of the model service and of a tool returns.  Nothing
\* obliges the user to send another message.
LiveSpec ==
    /\ Init /\ [][NextReturning]_vars
    /\ WF_vars(\E r \in ResponsesNow : ReceiveFirstResponse(r))
    /\ WF_vars(\E r \in ResponsesNow : ReceiveNextResponse(r))
    /\ WF_vars(ExecuteToolCall)
    /\ WF_vars(SendToolResults)
    /\ WF_vars(FinalText)
    /\ WF_vars(FallbackUnexpected)
    /\ WF_vars(FallbackNoResponse)

TypeOK ==
    /\ pc \in {"idle", "awaiting_first", "awaiting_next", "loop"}
    /\ model_calls \in 0..MaxModelCalls
    /\ \A i \in DOMAIN conversation_history :
           conversation_history[i].role \in {"user", "model", "tool"}


\* ================================================================ properties
Last(seq) == seq[Len(seq)]

\* response holds at least one function call
HasToolCalls(r) == r # NoResponse /\ HasParts(r) /\ tool_call_parts(r) # <<>>

\* response holds text parts and no function call
HasOnlyText(r) ==
    /\ r # NoResponse /\ HasParts(r)
    /\ tool_call_parts(r) = <<>> /\ text_response_parts(r) # <<>>

\* response has no candidates, no parts, or only parts of another kind
HasNothingUsable(r) ==
    /\ r # NoResponse
    /\ ~HasParts(r) \/ (tool_call_parts(r) = <<>> /\ text_response_parts(r) = <<>>)

\* the batch being dispatched, or just sent: the function calls of response
InBatch == pc \in {"loop", "awaiting_next"} /\ HasToolCalls(response)

\* the function calls held by a turn of the history
TurnCalls(turn) ==
    SelectSeq(turn.parts,
              LAMBDA p : "function_call" \in DOMAIN p /\ p.function_call # NoCall)

\* the responses among seq that have parts
WithParts(seq) == SelectSeq(seq, HasParts)

\* C1: a response with N >= 1 tool calls yields a tool turn with exactly N
\* function_response entries, the i-th carrying the name of the i-th call,
\* whatever the outcome of each call; while the batch is being dispatched the
\* collected entries match the calls handled so far.
C1_OneResultPerCallInOrder ==
    /\ InBatch =>
         /\ Len(tool_responses) = Len(attempts)
         /\ \A i \in DOMAIN tool_responses :
              tool_responses[i].function_response.name
                  = tool_call_parts(response)[i].name
    /\ pc = "awaiting_next" =>
         LET calls == tool_call_parts(response)
             turn == Last(conversation_history)
         IN  /\ turn.role = "tool"
             /\ Len(calls) >= 1
             /\ Len(turn.parts) = Len(calls)
             /\ \A i \in DOMAIN calls :
                  turn.parts[i].function_response.name = calls[i].name

\* a batch of three calls, one raised, one unregistered, one successful
C1_Witness ==
    /\ pc = "awaiting_next"
    /\ Len(tool_call_parts(response)) = 3
    /\ {attempts[i].outcome : i \in DOMAIN attempts} = {"raised", "not_found", "ok"}

\* C2: a requested name that is not a key of available_tools raises nothing
\* and invokes no tool; its result is {error: "Tool '<name>' not found."},
\* and it is sent to the model with the rest of the batch.
C2_UnregisteredToolYieldsNotFound ==
    /\ InBatch =>
         \A i \in DOMAIN attempts :
            LET name == tool_call_parts(response)[i].name
            IN  name \notin {"check_calendar_availability", "send_calendar_invite",
                             "search_restaurants", "Google Search"}
                => /\ attempts[i].outcome = "not_found"
                   /\ attempts[i].invoked = <<>>
                   /\ i \in DOMAIN tool_responses
                   /\ tool_responses[i].function_response.name = name
                   /\ tool_responses[i].function_response.response
                        = [error |-> "Tool '" \o name \o "' not found."]
    /\ pc = "awaiting_next" =>
         /\ Last(sent) = tool_responses
         /\ Last(conversation_history).parts = tool_responses
    /\ result.kind = "raised" => result.type = "ServiceError"

C2_Witness ==
    /\ pc = "awaiting_next"
    /\ \E i \in DOMAIN attempts :
         /\ attempts[i].outcome = "not_found"
         /\ Last(sent)[i].function_response.response
              = [error |-> "Tool 'search' not found."]

\* C3: an exception raised by a registered tool or by the normalization of
\* its arguments does not leave handle_user_input: the call gets a result
\* with an 'error' key, the remaining calls are still executed, and the
\* batch is sent to the model (the handler is then awaiting the model).
C3_ToolFaultBecomesErrorResult ==
    /\ InBatch =>
         \A i \in DOMAIN attempts :
            attempts[i].outcome = "raised"
            => /\ i \in DOMAIN tool_responses
               /\ "error" \in DOMAIN tool_responses[i].function_response.response
    /\ (\E i \in DOMAIN attempts : attempts[i].outcome = "raised")
         => /\ pc \in {"loop", "awaiting_next"}
               \/ (pc = "idle" /\ result.kind = "raised"
                   /\ result.type = "ServiceError" /\ Last(sent) = tool_responses)
            /\ pc # "loop" => Len(attempts) = Len(tool_call_parts(response))
    /\ pc = "awaiting_next" =>
         /\ Len(attempts) = Len(tool_call_parts(response))
         /\ Last(sent) = tool_responses
         /\ result = Running

\* the tool itself raised on the first call, the second call was executed
C3_Witness ==
    /\ pc = "awaiting_next"
    /\ Len(attempts) = 2
    /\ attempts[1].outcome = "raised"
    /\ attempts[1].invoked # <<>>
    /\ attempts[2].outcome = "ok"
    /\ "error" \in DOMAIN Last(conversation_history).parts[1].function_response.response


\* C4: during a handle_user_input call the history grows by exactly one turn
\* for each response received from the model and by exactly one turn for each
\* tool-result batch (after the user turn of the call).  Only responses that
\* have parts are counted.
C4_OneTurnPerResponseAndBatch ==
    result # NotCalled =>
        Len(conversation_history)
            = len_at_call + 1 + Len(WithParts(received)) + (Len(sent) - 1)

\* C5: conversation_history is append-only over any sequence of calls: every
\* step keeps each turn already present at its position and never shortens
\* the history.
C5_HistoryAppendOnly ==
    [][/\ Len(conversation_history') >= Len(conversation_history)
       /\ \A i \in DOMAIN conversation_history :
             conversation_history'[i] = conversation_history[i]]_vars

\* a second call that ran a batch with a tool error and then lost the model
C5_Witness ==
    /\ pc = "idle"
    /\ result.kind = "raised"
    /\ len_at_call > 0
    /\ Len(conversation_history) > len_at_call + 2
    /\ Last(conversation_history).role = "tool"
    /\ \E j \in DOMAIN Last(conversation_history).parts :
          "error" \in DOMAIN Last(conversation_history).parts[j].function_response.response

\* C6: every tool turn of the history is immediately preceded by a model turn
\* that holds at least one tool call, and holds exactly one result per call
\* of that model turn, in the same order.
C6_ToolTurnFollowsItsModelTurn ==
    \A i \in DOMAIN conversation_history :
        conversation_history[i].role = "tool"
        => /\ i > 1
           /\ conversation_history[i - 1].role = "model"
           /\ LET calls == TurnCalls(conversation_history[i - 1])
                  results == conversation_history[i].parts
              IN  /\ Len(calls) >= 1
                  /\ Len(results) = Len(calls)
                  /\ \A j \in DOMAIN calls :
                        results[j].function_response.name
                            = calls[j].function_call.name

\* C7: every response received during a turn is in the history, verbatim, as
\* its last turn before any of its parts is processed.
C7_EveryResponseRecordedVerbatim ==
    (pc = "loop" /\ attempts = <<>> /\ response # NoResponse /\ HasParts(response))
    => /\ conversation_history # <<>>
       /\ Last(conversation_history) = response.candidates[1].content

\* C8: a response with only text parts ends the turn; the space-joined text
\* is appended as a model turn and is the value returned to the caller.
C8_TextResponseIsReturned ==
    (pc = "idle" /\ result.kind = "returned" /\ HasOnlyText(response))
    => /\ printed = JoinWithSpaces(text_response_parts(response))
       /\ Last(conversation_history) = TextTurn(printed)
       /\ result.value = Str(printed)

\* C9: a response without candidates, without parts, or with only parts that
\* are neither a tool call nor text ends the turn with the fallback message,
\* and that message is appended to the history as a model turn.
C9_FallbackIsRecorded ==
    (pc = "idle" /\ result.kind = "returned" /\ HasNothingUsable(response))
    => /\ printed \in {"I'm not sure how to respond to that.",
                       "I processed the request but have no specific response."}
       /\ Last(conversation_history) = TextTurn(printed)

\* C10: a response with at least one tool call, with or without text, is not
\* answered with its text: every call is handled in the order received, and
\* only then the results are sent and the next response is awaited.
C10_ToolCallsTakePriority ==
    /\ (pc = "idle" /\ result.kind = "returned") => ~HasToolCalls(response)
    /\ (pc \in {"loop", "awaiting_next"} /\ HasToolCalls(response))
         => /\ printed = "" /\ result = Running
            /\ Len(attempts) <= Len(tool_call_parts(response))
            /\ \A i \in DOMAIN attempts :
                 /\ attempts[i].name = tool_call_parts(response)[i].name
                 /\ attempts[i].outcome = "ok"
                      => /\ Len(attempts[i].invoked) = 1
                         /\ attempts[i].invoked[1].name = attempts[i].name
    /\ pc = "awaiting_next"
         => /\ HasToolCalls(response)
            /\ Len(attempts) = Len(tool_call_parts(response))
            /\ Last(conversation_history) = ToolTurn(Last(sent))
            /\ Len(Last(sent)) = Len(attempts)

\* a response with text and a tool call: the call was executed and sent
C10_Witness ==
    /\ pc = "awaiting_next"
    /\ text_response_parts(response) # <<>>
    /\ Len(attempts) = 1
    /\ attempts[1].outcome = "ok"
    /\ "result" \in DOMAIN Last(sent)[1].function_response.response

\* C11: when every model call and every tool call returns, a call of
\* handle_user_input ends exactly when a response without tool calls arrives:
\* it has returned only if the last response received holds no tool call;
\* as long as every response so far holds a tool call it is still running,
\* whatever the number of round-trips; a batch of tool calls always leads to
\* the next model request, and a response without tool calls always leads
\* to the return.
C11_TerminatesIffNoToolCallResponse ==
    /\ [](result.kind = "returned"
           => received # <<>> /\ ~HasToolCalls(Last(received)))
    /\ []((result # NotCalled
            /\ \A i \in DOMAIN received : HasToolCalls(received[i]))
           => result = Running /\ pc # "idle")
    /\ (pc = "loop" /\ HasToolCalls(response)) ~> (pc = "awaiting_next")
    /\ (pc \in {"awaiting_first", "awaiting_next"}) ~> (pc = "loop")
    /\ (pc = "loop" /\ ~HasToolCalls(response))
          ~> (pc = "idle" /\ result.kind = "returned")

\* two responses in a row asked for tools: the call is still running and is
\* waiting for the model a third time
C11_Witness ==
    /\ pc = "awaiting_next"
    /\ result = Running
    /\ Len(received) = 2
    /\ \A i \in DOMAIN received : HasToolCalls(received[i])
    /\ Len(sent) = 3

\* C12: a fault of a send_message call (the first one or the one of a tool
\* batch) is not caught by handle_user_input: a call that ended with a
\* request left unanswered has raised the service's exception to its caller,
\* printed no final text and appended no model turn; the only exception that
\* ever leaves the handler is the model service's, while a tool fault of the
\* same call sits in the batch as an error result.
C12_ModelFaultPropagates ==
    /\ (pc = "idle" /\ result # NotCalled /\ Len(sent) = Len(received) + 1)
         => /\ result.kind = "raised"
            /\ result.type = "ServiceError"
    /\ result.kind = "raised"
         => /\ pc = "idle"
            /\ result.type = "ServiceError"
            /\ Len(sent) = Len(received) + 1
            /\ printed = ""
            /\ Last(conversation_history).role \in {"user", "tool"}
            /\ \A i \in DOMAIN attempts :
                  attempts[i].outcome = "raised"
                  => "error" \in DOMAIN Last(sent)[i].function_response.response

\* the send_message of a tool batch failed; the batch holds a tool fault
C12_Witness ==
    /\ pc = "idle"
    /\ result.kind = "raised"
    /\ Len(sent) = 2
    /\ Len(received) = 1
    /\ \E i \in DOMAIN attempts : attempts[i].outcome = "raised"

\* the one representation of a datetime field that is to be consumed: the
\* value under the '_str' key when present, otherwise a string under the
\* unsuffixed key
Consumed(args, key_str, key_dt) ==
    IF key_str \in DOMAIN args THEN <<args[key_str]>>
    ELSE IF key_dt \in DOMAIN args /\ IsStr(args[key_dt]) THEN <<args[key_dt]>>
    ELSE <<>>

\* the field (key_str, key_dt) of the arguments passed to the tool, against
\* the arguments written by the model
FieldNormalized(written, passed, now, key_str, key_dt) ==
    LET c == Consumed(written, key_str, key_dt)
    IN  /\ key_str \notin DOMAIN passed
        /\ c = <<>> => /\ key_dt \in DOMAIN passed <=> key_dt \in DOMAIN written
                       /\ key_dt \in DOMAIN written => passed[key_dt] = written[key_dt]
        /\ c # <<>> => /\ key_dt \in DOMAIN passed
                       /\ resolve_datetime_from_string(c[1], now) = Ok(passed[key_dt])

\* C13: for each of the four datetime fields of a calendar call exactly one
\* representation is consumed ('_str' key first, otherwise a string under the
\* unsuffixed key); the tool receives the resolved instant of the consumed
\* string under the unsuffixed key and no '_str' key; a field written in
\* neither way is passed as it was, absent if absent; and the tool is not
\* invoked only when a consumed string cannot be resolved.
C13_OneRepresentationConsumed ==
    ret # NoValue =>
        /\ ret.call.invoked # <<>> =>
              \A i \in DOMAIN dt_string_keys :
                 FieldNormalized(arg.args, ret.call.invoked[1].args, ret.now,
                                 dt_string_keys[i][1], dt_string_keys[i][2])
        /\ ret.call.invoked = <<>> =>
              /\ ret.call.outcome = "raised"
              /\ \E i \in DOMAIN dt_string_keys :
                    LET c == Consumed(arg.args, dt_string_keys[i][1],
                                      dt_string_keys[i][2])
                    IN  /\ c # <<>>
                        /\ resolve_datetime_from_string(c[1], ret.now)
                              = ret.call.exception

\* a datetime string among the arguments that the resolver cannot resolve
UnresolvableString(args, now) ==
    \E i \in DOMAIN dt_string_keys :
        LET c == Consumed(args, dt_string_keys[i][1], dt_string_keys[i][2])
        IN  /\ c # <<>>
            /\ IsStr(c[1])
            /\ ~resolve_datetime_from_string(c[1], now).ok

\* C14: a calendar call with a datetime string that cannot be resolved gets
\* an error result and no other: the tool returns nothing for it (no default
\* instant is put in the string's place), the available-slots cache keeps its
\* value, and no exception leaves the loop, which goes on with the batch.
C14_UnresolvableYieldsError ==
    (ret # NoValue /\ UnresolvableString(arg.args, ret.now)) =>
        /\ ret.call.outcome = "raised"
        /\ Len(ret.call.entries) = 1
        /\ "error" \in DOMAIN ret.call.entries[1].function_response.response
        /\ ret.call.slots = available_slots_cache
        /\ ~ret.call.escaped

\* n is the number num/den truncated toward zero
TruncatedTowardZero(x, n) ==
    IF x.num >= 0
    THEN n * x.den <= x.num /\ x.num < (n + 1) * x.den
    ELSE (n - 1) * x.den < x.num /\ x.num <= n * x.den

\* C15: when a calendar tool is invoked for a call that carries
\* slot_duration_minutes, a float argument reaches the tool as the integer
\* obtained by truncating it toward zero, and an integer argument reaches
\* it unchanged.
C15_DurationTruncatedToInt ==
    (/\ ret # NoValue
     /\ ret.call.invoked # <<>>
     /\ "slot_duration_minutes" \in DOMAIN arg.args)
    => LET written == arg.args["slot_duration_minutes"]
           passed == ret.call.invoked[1].args
       IN  /\ "slot_duration_minutes" \in DOMAIN passed
           /\ IF IsFloat(written)
              THEN /\ passed["slot_duration_minutes"].t = "int"
                   /\ TruncatedTowardZero(written,
                                          passed["slot_duration_minutes"].v)
              ELSE passed["slot_duration_minutes"] = written

\* -3.5 was written and -3 reached check_calendar_availability
C15_Witness ==
    /\ ret # NoValue
    /\ arg.name = "check_calendar_availability"
    /\ "slot_duration_minutes" \in DOMAIN arg.args
    /\ arg.args["slot_duration_minutes"] = FloatV(-7, 2)
    /\ ret.call.invoked # <<>>
    /\ ret.call.invoked[1].args["slot_duration_minutes"] = IntV(-3)

\* this step handled one call of the batch, successfully, for the tool name
HandledOk(name) ==
    /\ pc = "loop"
    /\ Len(attempts') = Len(attempts) + 1
    /\ Last(attempts').outcome = "ok"
    /\ Last(attempts').name = name

\* the result the step appended to tool_responses
ResultSent == Last(tool_responses').function_response.response.result

\* C16: a successful check_calendar_availability call replaces
\* available_slots_cache with that call's result (the model is sent the same
\* value with its datetimes as ISO strings) and leaves the restaurants cache;
\* a successful search_restaurants call replaces found_restaurants_cache with
\* that call's result and leaves the slots cache; every other step (another
\* tool, a call that raised, an unregistered name, a text or fallback
\* response, the start of a turn, a model fault) leaves both caches unchanged.
C16_CachesFollowSuccessfulCalls ==
    [][/\ HandledOk("check_calendar_availability")
            => /\ convert_datetimes_to_iso(available_slots_cache') = ResultSent
               /\ found_restaurants_cache' = found_restaurants_cache
       /\ HandledOk("search_restaurants")
            => /\ found_restaurants_cache' = ResultSent
               /\ available_slots_cache' = available_slots_cache
       /\ ~(HandledOk("check_calendar_availability")
             \/ HandledOk("search_restaurants"))
            => /\ available_slots_cache' = available_slots_cache
               /\ found_restaurants_cache' = found_restaurants_cache]_vars

\* both caches were filled by earlier calls and the turn ended with a text
C16_Witness ==
    /\ pc = "idle"
    /\ result.kind = "returned"
    /\ HasOnlyText(response)
    /\ available_slots_cache # ListV(<<>>)
    /\ found_restaurants_cache # ListV(<<>>)

\* s is an initial segment of t
IsPrefix(s, t) == Len(s) <= Len(t) /\ \A i \in DOMAIN s : t[i] = s[i]

\* the emails written in the user messages recorded so far
MentionedEmails ==
    UNION { {findall_emails(conversation_history[i].parts[1].v)[j] :
                j \in DOMAIN findall_emails(conversation_history[i].parts[1].v)} :
            i \in {k \in DOMAIN conversation_history :
                      conversation_history[k].role = "user"} }

\* C17: current_team_members only grows: every step keeps the members it
\* had at their positions (so none is removed and their relative order
\* stays), the initial members are always there, and so is every email the
\* driver found in a user message.
C17_TeamGrowsMonotonically ==
    /\ [](IsPrefix(TEAM_MEMBERS_INITIAL, current_team_members))
    /\ [](\A e \in MentionedEmails : InList(e, current_team_members))
    /\ [][IsPrefix(current_team_members, current_team_members')]_vars

\* three emails were added to the two initial members, over two turns
C17_Witness ==
    /\ Len(current_team_members) = 5
    /\ IsPrefix(TEAM_MEMBERS_INITIAL, current_team_members)
    /\ len_at_call > 0
    /\ result.kind = "returned"

\* the normalized form of an email: letter case is not significant
NormalizedEmail(email) == IF email = "Bob@x.com" THEN "bob@x.com" ELSE email

\* C18: current_team_members never holds two entries for the same email
\* under normalization (entries that differ only in letter case are the
\* same email), whatever lists update_team_members was given.
C18_NoDuplicateMembers ==
    \A i, j \in DOMAIN current_team_members :
        i # j => NormalizedEmail(current_team_members[i])
                    # NormalizedEmail(current_team_members[j])

\* C19: while a turn started by the driver is running, the system context
\* built at its start holds the team member list as it is in that turn, after
\* the emails of the turn's own message were added: it lists every email
\* written in the user messages so far, with the fixed timezone and the
\* instant at which it was built.
C19_ContextListsMentionedEmails ==
    pc # "idle" =>
        /\ system_instruction # NoInstruction
        /\ system_instruction.team_members
              = team_members_str(current_team_members)
        /\ \A e \in MentionedEmails : InList(e, current_team_members)
        /\ system_instruction.current_timezone = "Asia/Kolkata"
        /\ \E now \in NowChoices :
              system_instruction.current_datetime = strftime(now)

\* the second turn of a session: its message names emails, and the context
\* sent with it lists them after the initial members
C19_Witness ==
    /\ pc = "awaiting_first"
    /\ len_at_call > 0
    /\ Last(conversation_history).role = "user"
    /\ findall_emails(Last(conversation_history).parts[1].v) # <<>>
    /\ Len(current_team_members) > 2
    /\ system_instruction.team_members = team_members_str(current_team_members)

\* the number datetime.weekday() gives the named day: Monday is 0
WeekdayOrder ==
    <<"monday", "tuesday", "wednesday", "thursday", "friday", "saturday", "sunday">>
WeekdayNumber(day) == (CHOOSE i \in 1..7 : WeekdayOrder[i] = day) - 1

\* an hour of the 12-hour clock with am or pm, of the 24-hour clock without
ValidClockHour(h, ampm) ==
    IF ampm = "" THEN h \in 0..23 ELSE h \in 1..12

\* C20: through the fallback, "next W at H" with a valid hour resolves, and
\* whenever it resolves the date is on weekday W, at least 1 and at most 7
\* days after the reference date, and exactly 7 days after it when the
\* reference date is itself on weekday W.
C20_NextWeekdayWithinAWeek ==
    ret # NoValue =>
        \A g \in DOMAIN PhraseTable :
            arg.date_time_str = PhraseTable[g] =>
                /\ ValidClockHour(g[2], g[3]) => ret.ok
                /\ ret.ok =>
                     LET days == DateOf(ret.value.v)
                                    - DateOf(arg.current_context_date)
                     IN  /\ Weekday(ret.value.v) = WeekdayNumber(g[1])
                         /\ days >= 1
                         /\ days <= 7
                         /\ Weekday(arg.current_context_date) = WeekdayNumber(g[1])
                              => days = 7

\* asked on a Tuesday at 23:59, "next tuesday at 7pm" is the Tuesday after
C20_Witness ==
    /\ ret # NoValue
    /\ arg.date_time_str = "next tuesday at 7pm"
    /\ arg.current_context_date = 8 * MinutesPerDay + MinutesPerDay - 1
    /\ ret = Ok(Dt(15 * MinutesPerDay + 19 * 60))


\* C21: in the fallback, for every hour H of 1..12 the resolved hour of the
\* day is H + 12 for "pm" with H other than 12, 12 for "12pm", 0 for "12am",
\* H for "am" with H other than 12 and H with neither; the resolved instant
\* is on the full hour.
C21_TwelveHourClockConversion ==
    ret # NoValue =>
        \A g \in DOMAIN PhraseTable :
            (arg.date_time_str = PhraseTable[g] /\ g[2] \in 1..12) =>
                /\ ret.ok
                /\ IsDt(ret.value)
                /\ (ret.value.v % MinutesPerDay) \div 60 =
                     (CASE g[3] = "pm" /\ g[2] # 12 -> g[2] + 12
                        [] g[3] = "pm" /\ g[2] = 12 -> 12
                        [] g[3] = "am" /\ g[2] = 12 -> 0
                        [] OTHER -> g[2])
                /\ ret.value.v % 60 = 0

\* "next friday at 12pm", asked on a Monday at 10:00, is Friday at noon
C21_Witness ==
    /\ ret # NoValue
    /\ arg.date_time_str = "next friday at 12pm"
    /\ arg.current_context_date = 7 * MinutesPerDay + 600
    /\ ret = Ok(Dt(11 * MinutesPerDay + 12 * 60))


\* message holds the string s, alone or inside the wording of line 167
EchoesInput(message, s) ==
    \E before \in {"", CouldNotParsePrefix}, after \in {"", CouldNotParseSuffix} :
        message = before \o s \o after

\* C22: a string that neither the general parse nor the fallback turns into
\* a valid instant (a string matching no pattern, or a phrase of the fallback
\* pattern whose hour is out of range after conversion, such as "13pm" or
\* "25") makes resolve_datetime_from_string raise an error whose message
\* holds the string; no instant is returned for it.
C22_FailureEchoesInput ==
    ret # NoValue =>
        /\ (\/ arg.date_time_str = Unparseable
            \/ \E g \in DOMAIN PhraseTable :
                  /\ arg.date_time_str = PhraseTable[g]
                  /\ hour(g[2], g[3]) > 23)
             => ~ret.ok
        /\ ~ret.ok => EchoesInput(ret.error, arg.date_time_str)


Overlaps(a, b, c, d) ==
    (IF a <= b THEN a ELSE b) < d /\ c < (IF a <= b THEN b ELSE a)

\* C24: check_calendar_availability returns at most 3 slots; each returned
\* slot ends slot_duration_minutes after its start, lies inside the search
\* window from search_start_dt to search_end_dt, and overlaps no busy
\* interval of a queried calendar (it may touch one at an endpoint).
C24_SlotsAreFreeAndInWindow ==
    ret # NoValue =>
        /\ ret.ok
        /\ IsList(ret.value)
        /\ Len(ret.value.v) <= 3
        /\ \A i \in DOMAIN ret.value.v :
              LET start == ret.value.v[i].v.start_datetime.v
                  end == ret.value.v[i].v.end_datetime.v
              IN  /\ end = start + arg.slot_duration_minutes
                  /\ WindowStart <= start /\ start <= arg.search_end_dt
                  /\ WindowStart <= end /\ end <= arg.search_end_dt
                  /\ \A j \in DOMAIN arg.busy :
                        ~Overlaps(start, end, arg.busy[j][1], arg.busy[j][2])


\* the call handled last was check_calendar_availability and it returned the
\* empty list (line 303 has stored it in the cache)
EmptySlotsReturned ==
    /\ pc \in {"loop", "awaiting_next"}
    /\ attempts # <<>>
    /\ Last(attempts).name = "check_calendar_availability"
    /\ Last(attempts).outcome = "ok"
    /\ available_slots_cache = ListV(<<>>)

\* what the tool turn holds for such a call
EmptySlotsResult ==
    FunctionResponse("check_calendar_availability", [result |-> ListV(<<>>)])

\* C25: when check_calendar_availability returns an empty list the handler
\* neither raises nor reports an error: the call's entry of the batch is
\* {result: []}, the call of handle_user_input is still running, and the
\* batch with that entry is appended as a tool turn and sent to the model.
C25_EmptySlotsSurfaceVerbatim ==
    /\ [](EmptySlotsReturned =>
            /\ result = Running
            /\ Len(tool_responses) = Len(attempts)
            /\ Last(tool_responses) = EmptySlotsResult)
    /\ EmptySlotsReturned ~>
            (/\ pc = "awaiting_next"
             /\ result = Running
             /\ Last(Last(sent)) = EmptySlotsResult
             /\ Last(conversation_history) = ToolTurn(Last(sent)))

\* the batch ending with the empty availability result has been sent
C25_Witness ==
    /\ EmptySlotsReturned
    /\ pc = "awaiting_next"
    /\ Last(Last(sent)) = EmptySlotsResult
    /\ Last(conversation_history).role = "tool"
    /\ Last(Last(conversation_history).parts) = EmptySlotsResult


\* the max_results of the call: the argument, or the default of line 11
MaxResultsOf(args) ==
    IF "max_results" \in DOMAIN args THEN args["max_results"].v ELSE 3

\* C26: search_restaurants returns a list of at most max_results entries,
\* whatever the place search gave (places found, no result, an error status,
\* a network failure) and also when the API key is missing.
C26_AtMostMaxResults ==
    ret # NoValue =>
        /\ ret.ok
        /\ IsList(ret.value)
        /\ Len(ret.value.v) <= MaxResultsOf(arg.max_results)


\* no datetime at any depth of the lists and dicts of a value
RECURSIVE NoDatetime(_)
NoDatetime(x) ==
    CASE x.t = "dt" -> FALSE
      [] x.t = "list" -> \A i \in DOMAIN x.v : NoDatetime(x.v[i])
      [] x.t = "dict" -> \A k \in DOMAIN x.v : NoDatetime(x.v[k])
      [] OTHER -> TRUE

\* b is a with each datetime replaced by its ISO string: same keys, same
\* lengths, same order, every other value untouched
RECURSIVE IsoImage(_, _)
IsoImage(a, b) ==
    CASE a.t = "dt" -> b = Str(isoformat(a.v))
      [] a.t = "list" ->
            /\ b.t = "list" /\ Len(b.v) = Len(a.v)
            /\ \A i \in DOMAIN a.v : IsoImage(a.v[i], b.v[i])
      [] a.t = "dict" ->
            /\ b.t = "dict" /\ DOMAIN b.v = DOMAIN a.v
            /\ \A k \in DOMAIN a.v : IsoImage(a.v[k], b.v[k])
      [] OTHER -> b = a

\* the results held by a batch of function responses
ResultsOf(batch) ==
    {batch[i].function_response.response.result :
        i \in {j \in DOMAIN batch :
                 "result" \in DOMAIN batch[j].function_response.response}}

\* C27: convert_datetimes_to_iso replaces each datetime of a value by its ISO
\* string at every depth of lists and dicts, keeps keys, lengths and order,
\* and changes nothing when applied again; no tool result in tool_responses,
\* in a tool turn of conversation_history or in a batch sent to the model
\* holds a datetime.
C27_ToolResultsHoldNoDatetime ==
    /\ ret # NoValue =>
          /\ NoDatetime(ret)
          /\ IsoImage(arg, ret)
          /\ convert_datetimes_to_iso(ret) = ret
    /\ \A r \in ResultsOf(tool_responses) : NoDatetime(r)
    /\ \A i \in DOMAIN conversation_history :
          conversation_history[i].role = "tool" =>
              \A r \in ResultsOf(conversation_history[i].parts) : NoDatetime(r)
    /\ \A i \in DOMAIN sent :
          i > 1 => \A r \in ResultsOf(sent[i]) : NoDatetime(r)
    /\ (pc \in {"loop", "awaiting_next"} /\ attempts # <<>>
          /\ Last(attempts).name = "check_calendar_availability"
          /\ Last(attempts).outcome = "ok")
         => IsoImage(available_slots_cache,
                     Last(tool_responses).function_response.response.result)

\* the availability check found slots: the cache holds their datetimes, the
\* batch sent to the model and the tool turn hold ISO strings in their place
C27_Witness ==
    /\ pc = "awaiting_next"
    /\ Last(attempts).name = "check_calendar_availability"
    /\ Last(attempts).outcome = "ok"
    /\ available_slots_cache # ListV(<<>>)
    /\ IsDt(available_slots_cache.v[1].v.start_datetime)
    /\ IsStr(Last(Last(sent)).function_response.response.result.v[1].v.start_datetime)
    /\ Last(conversation_history) = ToolTurn(Last(sent))


\* the turns the current (or last) call of handle_user_input has appended
TurnsOfCall ==
    SubSeq(conversation_history, len_at_call + 1, Len(conversation_history))

\* C28: a call of handle_user_input appends exactly one user turn, which
\* holds the user's text; it is the first turn the call appends, and it is
\* in the history when the first request is sent to the model (while that
\* request is in flight the call has appended nothing else).
C28_UserTurnAppendedFirst ==
    result # NotCalled =>
        /\ TurnsOfCall # <<>>
        /\ sent # <<>>
        /\ Len(sent[1]) = 1 /\ IsStr(sent[1][1])
        /\ TurnsOfCall[1] = [role |-> "user", parts |-> sent[1]]
        /\ \A i \in DOMAIN TurnsOfCall : i > 1 => TurnsOfCall[i].role # "user"
        /\ pc = "awaiting_first" => Len(TurnsOfCall) = 1

\* a second call, after a call that ran tools: its user turn is the only
\* turn it has appended while its first request is in flight
C28_Witness ==
    /\ pc = "awaiting_first"
    /\ len_at_call > 2
    /\ conversation_history[len_at_call].role # "user"
    /\ Last(conversation_history) = [role |-> "user", parts |-> <<Str("hi")>>]
    /\ sent = << <<Str("hi")>> >>


\* C29: while send_message(user_input) is in flight, the history the chat
\* session was started with does not hold the user turn of the current call
\* with the text being sent, so that the model is given the new message once.
C29_UserMessageSentOnce ==
    pc = "awaiting_first" =>
        \A i \in DOMAIN start_chat_history :
            i > len_at_call =>
                start_chat_history[i] # [role |-> "user", parts |-> sent[1]]


\* C30: every function advertised to the model is a key of available_tools
\* under its advertised name, and a call of an advertised function never
\* gets the 'not found' error.
C30_AdvertisedToolsAreRegistered ==
    /\ advertised_tools \subseteq available_tools
    /\ \A i \in DOMAIN attempts :
          attempts[i].name \in advertised_tools
              => attempts[i].outcome # "not_found"


\* C31: when the normalization of a calendar call does not fail, the
\* arguments the tool is invoked with hold no '_str' key, and each of the
\* four datetime fields that is present holds a resolved instant, not a
\* string.
C31_NormalizedFieldsAreInstants ==
    (ret # NoValue /\ ret.call.invoked # <<>>) =>
        \A i \in DOMAIN dt_string_keys :
            LET passed == ret.call.invoked[1].args
                key_str == dt_string_keys[i][1]
                key_dt == dt_string_keys[i][2]
            IN  /\ key_str \notin DOMAIN passed
                /\ key_dt \in DOMAIN passed => ~IsStr(passed[key_dt])


\* C32: a call of a registered tool other than the two calendar tools is
\* invoked with exactly the arguments the model wrote, also when they hold
\* keys named like the datetime fields or a fractional slot_duration_minutes.
C32_OtherToolsGetArgumentsUntouched ==
    ret # NoValue =>
        ret.call.invoked = <<[name |-> arg.name, args |-> arg.args]>>

\* search_restaurants invoked with the '_str' key, the string and the float
\* still in its arguments
C32_Witness ==
    /\ ret # NoValue
    /\ arg.name = "search_restaurants"
    /\ ret.call.invoked # <<>>
    /\ "search_start_dt_str" \in DOMAIN ret.call.invoked[1].args
    /\ ret.call.invoked[1].args["search_start_dt_str"] = Str(NextTuesday7pm)
    /\ "slot_duration_minutes" \in DOMAIN ret.call.invoked[1].args
    /\ ret.call.invoked[1].args["slot_duration_minutes"] = FloatV(181, 2)


\* C33: when an invoked tool raises an exception with message M, the 'error'
\* value of the entry recorded for the call is M itself, with nothing before
\* or after it.
C33_ErrorValueIsTheMessage ==
    (ret # NoValue /\ ret.call.outcome = "raised" /\ ret.call.invoked # <<>>) =>
        /\ Len(ret.call.entries) = 1
        /\ "error" \in DOMAIN ret.call.entries[1].function_response.response
        /\ ret.call.entries[1].function_response.response.error
              = ret.call.exception.error


\* C34: when a request to the model service fails, the call of
\* handle_user_input ends with the history as it was when the request was
\* sent: the user turn of the call is still its first appended turn, the
\* model and tool turns appended before the failing request are kept, and
\* the last turn of the history is not a model turn.
C34_FaultKeepsAppendedTurns ==
    [][(pc \in {"awaiting_first", "awaiting_next"} /\ pc' = "idle"
            /\ result'.kind = "raised")
        => /\ conversation_history' = conversation_history
           /\ len_at_call' = len_at_call
           /\ Len(conversation_history') > len_at_call
           /\ conversation_history'[len_at_call + 1]
                 = [role |-> "user", parts |-> sent[1]]
           /\ Last(conversation_history').role # "model"
           /\ pc = "awaiting_next"
                 => Last(conversation_history') = ToolTurn(Last(sent))]_vars

\* the request that carried the tool results has failed: the call has ended,
\* and its user turn, the model turn with the function call and the tool
\* turn are in the history
C34_Witness ==
    /\ pc = "idle"
    /\ result.kind = "raised"
    /\ result.type = "ServiceError"
    /\ Len(TurnsOfCall) = 3
    /\ TurnsOfCall[1].role = "user"
    /\ TurnsOfCall[2].role = "model"
    /\ TurnsOfCall[3] = ToolTurn(Last(sent))


\* the candidate that starts 30*k minutes after the start of the window
GridSlot(k) ==
    <<WindowStart + 30 * k, WindowStart + 30 * k + arg.slot_duration_minutes>>

\* the candidates that end by search_end_dt; with a window of at most 180
\* minutes and a duration of -60 minutes or more none starts later than
\* MaxGridIndex half hours after the start of the window
MaxGridIndex == (180 + 60) \div 30 + 1
GridCandidates ==
    { k \in 0..MaxGridIndex : GridSlot(k)[2] <= arg.search_end_dt }

\* a free candidate: the test of line 172 finds no interval of the merged
\* busy list that it overlaps
FreeOfBusy(c) == is_free(c[1], c[2], merged_busy_intervals(arg.busy))

FreeGridCandidates == { k \in GridCandidates : FreeOfBusy(GridSlot(k)) }

\* the slots are the candidates ks[1] < ks[2] < ... and no free candidate
\* before the last of them, or after it when they are fewer than 3, is left out
FirstFreeCandidates(slots, ks) ==
    /\ Len(ks) = Len(slots)
    /\ Len(ks) <= 3
    /\ \A i \in DOMAIN ks :
          /\ ks[i] \in FreeGridCandidates
          /\ slots[i].v.start_datetime = Dt(GridSlot(ks[i])[1])
          /\ slots[i].v.end_datetime = Dt(GridSlot(ks[i])[2])
          /\ i > 1 => ks[i - 1] < ks[i]
    /\ \A k \in FreeGridCandidates :
          \/ \E i \in DOMAIN ks : ks[i] = k
          \/ Len(ks) = 3 /\ k > ks[3]

\* check_calendar_availability has returned from a query that succeeded
QueryAnswered ==
    /\ ret = NoValue
    /\ calendar_service
    /\ ret' = check_calendar_availability(
                   [team_members_emails |-> Emails,
                    search_start_dt |-> Dt(WindowStart),
                    search_end_dt |-> Dt(arg.search_end_dt),
                    slot_duration_minutes |-> IntV(arg.slot_duration_minutes)],
                   calendar_service, [fail |-> FALSE, busy |-> arg.busy])

\* C35: when the freebusy query succeeds, the slots returned are the first up
\* to three free candidates of the grid search_start_dt + 30*k minutes that
\* end by search_end_dt, in strictly increasing order of start: no free
\* candidate that starts before a returned slot is left out.
C35_FirstThreeFreeCandidates ==
    [][QueryAnswered =>
         /\ ret'.ok
         /\ IsList(ret'.value)
         /\ \E n \in 0..3 : \E ks \in [1..n -> 0..MaxGridIndex] :
               FirstFreeCandidates(ret'.value.v, ks)]_vars


\* three slots returned with a busy candidate skipped between the first and
\* the second, and a fourth free candidate not returned
C35_Witness ==
    /\ ret # NoValue
    /\ calendar_service
    /\ Len(ret.value.v) = 3
    /\ Cardinality(FreeGridCandidates) > 3
    /\ ret.value.v[2].v.start_datetime.v
          > ret.value.v[1].v.start_datetime.v + 30


\* C36: a calendar tool invoked with all its required parameters and no
\* unknown one does not raise: the call gets a 'result' entry, not an 'error'
\* entry, and without a calendar service the result is the empty list for
\* check_calendar_availability and False for send_calendar_invite.
C36_CalendarToolsNeverRaise ==
    (/\ ret # NoValue
     /\ ret.call.invoked # <<>>
     /\ BindError(arg.name, ret.call.invoked[1].args) = "") =>
        /\ ret.call.outcome = "ok"
        /\ Len(ret.call.entries) = 1
        /\ "result" \in DOMAIN ret.call.entries[1].function_response.response
        /\ ~calendar_service =>
              ret.call.entries[1].function_response.response.result
                = IF arg.name = "check_calendar_availability"
                  THEN ListV(<<>>) ELSE BoolV(FALSE)


\* the three simulated restaurants, written out
SimulatedNames ==
    <<"Paradise Biryani (Simulated)", "Bawarchi (Simulated)", "Sarvi (Simulated)">>

IsSimulatedList(value) ==
    /\ IsList(value)
    /\ Len(value.v) = 3
    /\ \A i \in 1..3 :
          /\ value.v[i].v.name = Str(SimulatedNames[i])
          /\ value.v[i].v.booking_url
                = Str("https://example.com/simulated-booking")

\* nothing can be collected from the Places request of the call
NothingCollected ==
    \/ ~GOOGLE_PLACES_API_KEY
    \/ arg.places.network_failure
    \/ arg.places.status # "OK"
    \/ arg.places.results = <<>>
    \/ MaxResultsOf(arg.max_results) <= 0

MergedOfCall == merged_busy_intervals(arg.busy)

\* the merged list is sorted by start and its intervals neither overlap nor
\* touch
MergedIsSortedAndDisjoint ==
    \A i \in DOMAIN MergedOfCall :
        /\ MergedOfCall[i][1] < MergedOfCall[i][2]
        /\ i > 1 => MergedOfCall[i - 1][2] < MergedOfCall[i][1]

\* the instant t lies in one of the intervals (start included, end excluded)
CoveredBy(t, intervals) ==
    \E i \in DOMAIN intervals : intervals[i][1] <= t /\ t < intervals[i][2]

\* the merged list covers the instants the busy intervals cover, no more and
\* no less (the busy intervals lie between 60 minutes before the start of the
\* window and 240 minutes after it)
MergedCoversUnion ==
    \A t \in (WindowStart - 60)..(WindowStart + 240) :
        CoveredBy(t, MergedOfCall) <=> CoveredBy(t, arg.busy)

\* the test of line 172 gives the same answer on the merged list as on the
\* busy intervals themselves, for every candidate of the grid
SameAnswerOnRawIntervals ==
    \A k \in GridCandidates :
        is_free(GridSlot(k)[1], GridSlot(k)[2], MergedOfCall)
            <=> is_free(GridSlot(k)[1], GridSlot(k)[2], arg.busy)

\* C38: in a call of check_calendar_availability whose query succeeds, the
\* merged busy list is sorted by start, its intervals are pairwise disjoint
\* and do not touch, it covers exactly the instants covered by the busy
\* intervals of all calendars, and testing a candidate slot against it gives
\* the same answer as testing the slot against every busy interval.
C38_MergedListIsEquivalent ==
    (ret # NoValue /\ calendar_service) =>
        /\ MergedIsSortedAndDisjoint
        /\ MergedCoversUnion
        /\ SameAnswerOnRawIntervals

====
